---------------------------- MODULE Spec2Model ----------------------------
(***************************************************************************)
(* Batch-request lifecycle manager of label-game-icons-net:                *)
(*   batch_requests.py  (BatchRequest, BatchExecution, repository lookup)  *)
(*   generate_labels.py (the make / execute / check / list / cancel /      *)
(*                       download commands)                                *)
(*   utils.py           (hash_tuple_simple, base36_encode,                 *)
(*                       partial_dict_key_match)                           *)
(*                                                                         *)
(* A Python str is a sequence of one-character strings, so that            *)
(* concatenation, sorting, prefix tests and formatting are computed the    *)
(* way the interpreter computes them.                                      *)
(***************************************************************************)
EXTENDS Integers, Sequences, FiniteSets, TLC

(***************************************************************************)
(* Bounds of the model.                                                    *)
(***************************************************************************)
\* longest icon list given to one make command
MaxIcons == 4
\* most executions started on one batch request
MaxExec == 2
\* most batch requests in the requests directory
MaxRecords == 2
\* most executions in the requests directory, over all its batch requests
MaxRuns == 2

(***************************************************************************)
(* Python strings.                                                         *)
(***************************************************************************)
\* ord(c) for the characters the model uses
CodePoint(c) ==
    CASE c = " " -> 32 [] c = "'" -> 39 [] c = "(" -> 40 [] c = ")" -> 41
      [] c = "," -> 44 [] c = "-" -> 45
      [] c = "0" -> 48 [] c = "1" -> 49 [] c = "2" -> 50 [] c = "3" -> 51
      [] c = "4" -> 52 [] c = "5" -> 53 [] c = "6" -> 54 [] c = "7" -> 55
      [] c = "8" -> 56 [] c = "9" -> 57
      [] c = "_" -> 95
      [] c = "a" -> 97 [] c = "b" -> 98 [] c = "c" -> 99 [] c = "d" -> 100
      [] c = "p" -> 112 [] c = "q" -> 113 [] c = "|" -> 124

\* s < t for two str: lexicographic on code points, a proper prefix is smaller
RECURSIVE StrLess(_, _)
StrLess(s, t) ==
    IF t = <<>> THEN FALSE
    ELSE IF s = <<>> THEN TRUE
    ELSE IF CodePoint(Head(s)) < CodePoint(Head(t)) THEN TRUE
    ELSE IF CodePoint(Head(s)) > CodePoint(Head(t)) THEN FALSE
    ELSE StrLess(Tail(s), Tail(t))

\* one step of the insertion that sorted() amounts to on a list of str
RECURSIVE InsertSorted(_, _)
InsertSorted(x, sortedSeq) ==
    IF sortedSeq = <<>> THEN <<x>>
    ELSE IF StrLess(x, Head(sortedSeq)) THEN <<x>> \o sortedSeq
    ELSE <<Head(sortedSeq)>> \o InsertSorted(x, Tail(sortedSeq))

\* sorted(names)
RECURSIVE sorted(_)
sorted(names) ==
    IF names = <<>> THEN <<>>
    ELSE InsertSorted(Head(names), sorted(Tail(names)))

\* sep.join(parts)
RECURSIVE join(_, _)
join(sep, parts) ==
    IF parts = <<>> THEN <<>>
    ELSE IF Len(parts) = 1 THEN parts[1]
    ELSE parts[1] \o sep \o join(sep, Tail(parts))

\* the decimal digit of d in 0..9
Digit(d) == <<"0", "1", "2", "3", "4", "5", "6", "7", "8", "9">>[d + 1]

\* str(n) for an int n >= 0
RECURSIVE str(_)
str(n) == IF n < 10 THEN <<Digit(n)>> ELSE str(n \div 10) \o <<Digit(n % 10)>>

\* repr(s) of a str without quotes or escapes
ReprStr(s) == <<"'">> \o s \o <<"'">>

\* repr(t) of a tuple of str
ReprStrTuple(t) ==
    IF Len(t) = 1 THEN <<"(">> \o ReprStr(t[1]) \o <<",", ")">>
    ELSE <<"(">> \o join(<<",", " ">>, [i \in 1..Len(t) |-> ReprStr(t[i])])
               \o <<")">>

\* str((prompt_id, size, icon_names)): the serialization hash_tuple_simple hashes
SerializeIdValues(prompt_id, size, icon_names) ==
    <<"(">> \o ReprStr(prompt_id) \o <<",", " ">> \o str(size) \o <<",", " ">>
            \o ReprStrTuple(icon_names) \o <<")">>

(***************************************************************************)
(* utils.py                                                                *)
(***************************************************************************)
\* The digest space.  hashlib.md5 yields 128 bits; the model keeps a digest
\* that is a deterministic function of every character of the serialized
\* text and of nothing else, over a small space.
Md5Range == 46656

\* int.from_bytes(hashlib.md5(serialized.encode()).digest(), 'big')
RECURSIVE Md5From(_, _)
Md5From(acc, serialized) ==
    IF serialized = <<>> THEN acc
    ELSE Md5From((acc * 31 + CodePoint(Head(serialized))) % Md5Range,
                 Tail(serialized))

Md5Int(serialized) == Md5From(7, serialized)

\* string.digits + string.ascii_lowercase
Base36Alphabet ==
    <<"0", "1", "2", "3", "4", "5", "6", "7", "8", "9",
      "a", "b", "c", "d", "e", "f", "g", "h", "i", "j", "k", "l", "m",
      "n", "o", "p", "q", "r", "s", "t", "u", "v", "w", "x", "y", "z">>

\* the while loop of base36_encode
RECURSIVE Base36Loop(_, _)
Base36Loop(number, base36) ==
    IF number = 0 THEN base36
    ELSE Base36Loop(number \div Len(Base36Alphabet),
                    <<Base36Alphabet[(number % Len(Base36Alphabet)) + 1]>> \o base36)

\* base36_encode(number) for number >= 0 (a digest is never negative)
base36_encode(number) ==
    IF 0 <= number /\ number < Len(Base36Alphabet)
    THEN <<Base36Alphabet[number + 1]>>
    ELSE Base36Loop(number, <<>>)

\* hash_tuple_simple((prompt_id, size, icon_names))
hash_tuple_simple(prompt_id, size, icon_names) ==
    base36_encode(Md5Int(SerializeIdValues(prompt_id, size, icon_names)))

\* partial_dict_key_match: k.startswith(key)
startswith(k, key) ==
    /\ Len(key) <= Len(k)
    /\ SubSeq(k, 1, Len(key)) = key

(***************************************************************************)
(* The icon catalog and the prompt file (icons.py, prompts.py).            *)
(***************************************************************************)
\* load_all_icons(icon_file): the rows of the CSV as Icon(name, path)
Icon(name, path) == [name |-> name, path |-> path]

load_all_icons ==
    << Icon(<<"a">>, "icons/a.png"),
       Icon(<<"b">>, "icons/b.png"),
       Icon(<<"a", "_", "b">>, "icons/a_b.png") >>

IconNamesOf(icons) == [i \in 1..Len(icons) |-> icons[i].name]

\* the icon files a command can be given with --icon-file: the catalog, the
\* catalog after icon b was taken out, and a file that does not exist
\* (load_all_icons logs an error and returns [])
IconFiles ==
    { load_all_icons,
      << Icon(<<"a">>, "icons/a.png"), Icon(<<"a", "_", "b">>, "icons/a_b.png") >>,
      << >> }

NamesIn(all_icons) == {all_icons[i].name : i \in 1..Len(all_icons)}

\* search_icons = {icon.name: icon for icon in all_icons}, at name: the last
\* icon of that name
SearchIcon(all_icons, name) ==
    all_icons[CHOOSE i \in 1..Len(all_icons) :
                 /\ all_icons[i].name = name
                 /\ \A j \in 1..Len(all_icons) : all_icons[j].name = name => j <= i]

\* icon_names = {icon.name: icon for icon in all_icons}
IconByName(name) == SearchIcon(load_all_icons, name)

CatalogNames == {load_all_icons[i].name : i \in 1..Len(load_all_icons)}

\* the ids of the prompts of the prompt file (load_all_prompts)
PromptIds == { <<"p">>, <<"p", "-", "1">> }

\* values of --size
Sizes == {1, 12}

\* values of --author, of --batch_requests_dir and of datetime.now()
Authors == {"ann", "bob"}
Directories == {"batch_requests/", "elsewhere/"}
Clock == {"2024-05-01T10:00:00", "2024-05-02T10:00:00"}

\* every list of at most n catalog names: what --icons can carry
RECURSIVE NameLists(_)
NameLists(n) ==
    IF n = 0 THEN { <<>> }
    ELSE LET shorter == NameLists(n - 1)
         IN  shorter \cup { <<x>> \o l : x \in CatalogNames,
                                         l \in {m \in shorter : Len(m) = n - 1} }

(***************************************************************************)
(* BatchRequest.make_new: the id (batch_requests.py 79-89).                *)
(***************************************************************************)
\* a make_new that takes the short form for fewer than 3 icons only
make_new_id_lt3(icons, all_icons, prompt_id, size) ==
    LET icon_names == sorted(IconNamesOf(icons))
    IN  IF all_icons
        THEN prompt_id \o <<"-">> \o str(size)
        ELSE IF Len(icons) < 3
        THEN prompt_id \o <<"-">> \o str(size) \o <<"-">>
                       \o join(<<"_">>, sorted(icon_names))
        ELSE prompt_id \o <<"-">> \o str(size) \o <<"-">>
                       \o hash_tuple_simple(prompt_id, size, icon_names)

\* a make_new that forgets to sort the icon names
make_new_id_unsorted(icons, all_icons, prompt_id, size) ==
    LET icon_names == IconNamesOf(icons)
    IN  IF all_icons
        THEN prompt_id \o <<"-">> \o str(size)
        ELSE IF Len(icons) <= 3
        THEN prompt_id \o <<"-">> \o str(size) \o <<"-">>
                       \o join(<<"_">>, icon_names)
        ELSE prompt_id \o <<"-">> \o str(size) \o <<"-">>
                       \o hash_tuple_simple(prompt_id, size, icon_names)

\* a make_new that hashes the icon names in the order they were given
make_new_id_hash_unsorted(icons, all_icons, prompt_id, size) ==
    LET icon_names == sorted(IconNamesOf(icons))
    IN  IF all_icons
        THEN prompt_id \o <<"-">> \o str(size)
        ELSE IF Len(icons) <= 3
        THEN prompt_id \o <<"-">> \o str(size) \o <<"-">>
                       \o join(<<"_">>, sorted(icon_names))
        ELSE prompt_id \o <<"-">> \o str(size) \o <<"-">>
                       \o hash_tuple_simple(prompt_id, size, IconNamesOf(icons))

make_new_id(icons, all_icons, prompt_id, size) ==
    LET icon_names == sorted(IconNamesOf(icons))
    IN  IF all_icons
        THEN prompt_id \o <<"-">> \o str(size)
        ELSE IF Len(icons) <= 3
        THEN prompt_id \o <<"-">> \o str(size) \o <<"-">>
                       \o join(<<"_">>, sorted(icon_names))
        ELSE prompt_id \o <<"-">> \o str(size) \o <<"-">>
                       \o hash_tuple_simple(prompt_id, size, icon_names)

\* path = os.path.join(base_directory, f"{id}.yaml")
YamlPath(base_directory, id) == [dir |-> base_directory, stem |-> id, ext |-> ".yaml"]

\* the arguments make_label_batch_request hands to make_new for --icons names
\* (generate_labels.py 64-91): the named icons, or the whole catalog
MakeArgsFrom(all_icons, names, prompt_id, size, author, base_directory, now) ==
    [ icons          |-> IF names # <<>>
                         THEN [i \in 1..Len(names) |-> SearchIcon(all_icons, names[i])]
                         ELSE all_icons,
      all_icons      |-> (names = <<>>),
      prompt_id      |-> prompt_id,
      size           |-> size,
      author         |-> author,
      base_directory |-> base_directory,
      now            |-> now ]

\* the same with the catalog as the icon file
MakeArgs(names, prompt_id, size, author, base_directory, now) ==
    [ icons          |-> IF names # <<>>
                         THEN [i \in 1..Len(names) |-> IconByName(names[i])]
                         ELSE load_all_icons,
      all_icons      |-> (names = <<>>),
      prompt_id      |-> prompt_id,
      size           |-> size,
      author         |-> author,
      base_directory |-> base_directory,
      now            |-> now ]

NoId == <<"?">>

(***************************************************************************)
(* BatchExecution and BatchRequest (batch_requests.py).                    *)
(***************************************************************************)
\* values datetime.now().isoformat() takes while executions run
RunClock == {"2024-05-03T10:00:00"}

\* ids the inference service hands out for uploaded files and for batch jobs
FileIds == {"file_123"}
JobIds == {"job_456"}

\* the statuses the inference service reports for a batch job
ExternalStatuses == {"in_progress", "completed"}

\* the last "_"-separated part of an icon name: icon.split("_")[-1]
RECURSIVE LastSegment(_)
LastSegment(name) ==
    IF \E i \in 1..Len(name) : name[i] = "_"
    THEN LastSegment(Tail(name))
    ELSE name

\* Prompt.populate(icon, icon_data): the request body, with no model yet
populate(prompt_id, icon_name) ==
    [model |-> "", prompt |-> prompt_id, icon |-> LastSegment(icon_name)]

\* one line of the payload file: RawBatchPrompt(custom_id, body)
RawBatchPrompt(custom_id, body) ==
    [custom_id |-> custom_id, body |-> body,
     method |-> "POST", url |-> "/v1/chat/completions"]

\* populate_base_prompts: the lines written to <id>.jsonl, one per icon
populate_base_prompts(self) ==
    [i \in 1..Len(self.icons) |->
        RawBatchPrompt(self.id \o <<"|">> \o self.icons[i].name,
                       populate(self.prompt_id, self.icons[i].name))]

\* load_prompts: the lines of <id>.jsonl, stripped
load_prompts(files, self) == files[self.path.stem]

\* --gpt_model (DEFAULT_MODEL)
GptModel == "gpt-4o-2024-08-06"

\* a finalize_prompts that leaves out the first prompt
finalize_prompts_from_second(self, execution_id, gpt_model) ==
    [i \in 1..(Len(self.prompts) - 1) |->
        [self.prompts[i + 1] EXCEPT !.body.model = gpt_model,
                                    !.custom_id = @ \o <<"|">> \o execution_id]]

\* finalize_prompts(execution_id, open_ai_config): the lines of the string
\* returned, joined there by "\n"
finalize_prompts(self, execution_id, gpt_model) ==
    [i \in 1..Len(self.prompts) |->
        [self.prompts[i] EXCEPT !.body.model = gpt_model,
                                !.custom_id = @ \o <<"|">> \o execution_id]]

\* make_new past the existence test: the new BatchRequest
NewBatchRequest(c) ==
    LET id == make_new_id(c.icons, c.all_icons, c.prompt_id, c.size)
    IN  [ id            |-> id,
          prompt_id     |-> c.prompt_id,
          icons         |-> c.icons,
          use_all_icons |-> c.all_icons,
          size          |-> c.size,
          when_created  |-> c.now,
          author        |-> c.author,
          execution     |-> <<>>,
          path          |-> YamlPath(c.base_directory, id),
          prompts       |-> <<>> ]

\* the BatchExecution start_new_execution creates
NewExecution(execution_count, now) ==
    [ when_started   |-> now,
      when_completed |-> "",
      status         |-> "starting",
      input_file_id  |-> "",
      batch_id       |-> "",
      execution_id   |-> str(execution_count) ]

\* a start_new_execution that keeps only the new execution
start_new_execution_replacing(self, now) ==
    [self EXCEPT !.execution = <<NewExecution(Len(self.execution), now)>>]

\* a start_new_execution that numbers executions from 1
start_new_execution_from1(self, now) ==
    [self EXCEPT !.execution = Append(@, NewExecution(Len(self.execution) + 1, now))]

\* a start_new_execution that stamps the request with the time of the run
start_new_execution_restamping(self, now) ==
    [self EXCEPT !.execution = Append(@, NewExecution(Len(self.execution), now)),
                 !.when_created = now]

\* start_new_execution: self after the append (the save follows in the action)
start_new_execution(self, now) ==
    [self EXCEPT !.execution = Append(@, NewExecution(Len(self.execution), now))]

\* the assignments of save_upload, save_submit, update_execution_status and
\* complete_execution on the execution object they are given
\* a save_upload that forgets the file id
UploadFields_status_only(execution, input_file_id) ==
    [execution EXCEPT !.status = "uploaded"]

\* a save_upload that records the execution as submitted
UploadFields_submitted(execution, input_file_id) ==
    [execution EXCEPT !.input_file_id = input_file_id, !.status = "submitted"]

UploadFields(execution, input_file_id) ==
    [execution EXCEPT !.input_file_id = input_file_id, !.status = "uploaded"]

\* a save_submit that drops the file id when it records the batch id
SubmitFields_dropping_file(execution, batch_id) ==
    [execution EXCEPT !.batch_id = batch_id, !.input_file_id = "",
                      !.status = "submitted"]

SubmitFields(execution, batch_id) ==
    [execution EXCEPT !.batch_id = batch_id, !.status = "submitted"]

StatusField(execution, status) ==
    [execution EXCEPT !.status = status]

\* a complete_execution that sets the status and no time
CompleteFields_status_only(execution, now) ==
    [execution EXCEPT !.status = "completed"]

CompleteFields(execution, now) ==
    [execution EXCEPT !.when_completed = now, !.status = "completed"]

\* a get_status that reads the first execution
get_status_first(self) ==
    IF Len(self.execution) = 0 THEN "created" ELSE self.execution[1].status

get_status(self) ==
    IF Len(self.execution) = 0 THEN "created"
    ELSE self.execution[Len(self.execution)].status

\* a save_execution that skips the comparison with the last execution
save_execution_error_unchecked(self, execution) ==
    IF Len(self.execution) = 0 THEN "ValueError: No execution to save to."
    ELSE ""

\* the two tests of save_execution: the ValueError raised, or "" when it saves
save_execution_error(self, execution) ==
    IF Len(self.execution) = 0 THEN "ValueError: No execution to save to."
    ELSE IF self.execution[Len(self.execution)] # execution
    THEN "ValueError: Execution does not match the last execution."
    ELSE ""

(***************************************************************************)
(* The repository: <id>.yaml and <id>.jsonl in the requests directory.     *)
(***************************************************************************)
\* a save() that dumps the icon names sorted
SavedDict_sorted(self) ==
    LET raw == [ id            |-> self.id,
                 prompt_id     |-> self.prompt_id,
                 use_all_icons |-> self.use_all_icons,
                 size          |-> self.size,
                 when_created  |-> self.when_created,
                 author        |-> self.author,
                 execution     |-> self.execution ]
    IN  IF self.use_all_icons THEN raw
        ELSE raw @@ [icons |-> sorted(IconNamesOf(self.icons))]

\* save(): the dict dumped to <id>.yaml
SavedDict(self) ==
    LET raw == [ id            |-> self.id,
                 prompt_id     |-> self.prompt_id,
                 use_all_icons |-> self.use_all_icons,
                 size          |-> self.size,
                 when_created  |-> self.when_created,
                 author        |-> self.author,
                 execution     |-> self.execution ]
    IN  IF self.use_all_icons THEN raw
        ELSE raw @@ [icons |-> IconNamesOf(self.icons)]

\* the directory after the file named stem is written with content
WriteFile(dir, stem, content) == (stem :> content) @@ dir

\* load_all_batch_requests on one file, with the icons of the icon file
\* given: BatchRequest(**raw, path=...)
LoadedRequestFrom(all_icons, raw, stem) ==
    [ id            |-> raw.id,
      prompt_id     |-> raw.prompt_id,
      icons         |-> IF raw.use_all_icons THEN all_icons
                        ELSE [i \in 1..Len(raw.icons) |->
                                SearchIcon(all_icons, raw.icons[i])],
      use_all_icons |-> raw.use_all_icons,
      size          |-> raw.size,
      when_created  |-> raw.when_created,
      author        |-> raw.author,
      execution     |-> raw.execution,
      path          |-> YamlPath("batch_requests/", stem),
      prompts       |-> <<>> ]

\* the files that name an icon the icon file does not have
NamesUnknownIcon(files, all_icons) ==
    { stem \in DOMAIN files :
        /\ ~files[stem].use_all_icons
        /\ \E i \in 1..Len(files[stem].icons) :
              files[stem].icons[i] \notin NamesIn(all_icons) }

IconNotFound == "ValueError: Icon not found in icon file."

\* a load_all_batch_requests that leaves out the icons it does not find
load_all_batch_requests_lenient(files, all_icons) ==
    [ error    |-> "",
      requests |-> [stem \in DOMAIN files |->
                      LoadedRequestFrom(all_icons,
                         IF files[stem].use_all_icons THEN files[stem]
                         ELSE [files[stem] EXCEPT !.icons =
                                 SelectSeq(@, LAMBDA n : n \in NamesIn(all_icons))],
                         stem)] ]

\* load_all_batch_requests(search_directory, icon_file): the ValueError, or
\* the requests loaded, here by the stem of their file
load_all_batch_requests(files, all_icons) ==
    IF NamesUnknownIcon(files, all_icons) # {}
    THEN [ error |-> IconNotFound, requests |-> <<>> ]
    ELSE [ error    |-> "",
           requests |-> [stem \in DOMAIN files |->
                           LoadedRequestFrom(all_icons, files[stem], stem)] ]

\* load_all_batch_requests on one file: BatchRequest(**raw, path=...)
LoadedRequest(raw, stem) ==
    [ id            |-> raw.id,
      prompt_id     |-> raw.prompt_id,
      icons         |-> IF raw.use_all_icons THEN load_all_icons
                        ELSE [i \in 1..Len(raw.icons) |-> IconByName(raw.icons[i])],
      use_all_icons |-> raw.use_all_icons,
      size          |-> raw.size,
      when_created  |-> raw.when_created,
      author        |-> raw.author,
      execution     |-> raw.execution,
      path          |-> YamlPath("batch_requests/", stem),
      prompts       |-> <<>> ]

\* search_requests = {request.id: request}: the ids of the loaded requests
SearchIds(yamls) == {yamls[stem].id : stem \in DOMAIN yamls}

\* the file whose record has the given id
StemOfId(yamls, id) == CHOOSE stem \in DOMAIN yamls : yamls[stem].id = id

\* partial_dict_key_match(key, dictionary)
partial_dict_key_match(key, ids) == {k \in ids : startswith(k, key)}

\* difflib.SequenceMatcher.find_longest_match(a, b): the blocks a[i..i+k-1] =
\* b[j..j+k-1], as (i, j, k)
MatchingBlocks(a, b) ==
    { t \in (1..Len(a)) \X (1..Len(b)) \X (1..Len(a)) :
        /\ t[1] + t[3] - 1 <= Len(a)
        /\ t[2] + t[3] - 1 <= Len(b)
        /\ SubSeq(a, t[1], t[1] + t[3] - 1) = SubSeq(b, t[2], t[2] + t[3] - 1) }

\* the longest block; of those the one earliest in a; of those the one
\* earliest in b
LongestMatch(a, b) ==
    CHOOSE t \in MatchingBlocks(a, b) :
        \A u \in MatchingBlocks(a, b) :
            \/ t[3] > u[3]
            \/ t[3] = u[3] /\ t[1] < u[1]
            \/ t[3] = u[3] /\ t[1] = u[1] /\ t[2] <= u[2]

\* the characters matched by get_matching_blocks: the longest block, then the
\* same to its left and to its right
RECURSIVE MatchedCharacters(_, _)
MatchedCharacters(a, b) ==
    IF MatchingBlocks(a, b) = {} THEN 0
    ELSE LET t == LongestMatch(a, b)
         IN  t[3]
             + MatchedCharacters(SubSeq(a, 1, t[1] - 1), SubSeq(b, 1, t[2] - 1))
             + MatchedCharacters(SubSeq(a, t[1] + t[3], Len(a)),
                                 SubSeq(b, t[2] + t[3], Len(b)))

\* difflib.get_close_matches(word, possibilities), cutoff 0.6: the
\* possibilities x with ratio 2.0 * matches / (len(x) + len(word)) >= 0.6
get_close_matches(word, possibilities) ==
    { x \in possibilities :
        10 * MatchedCharacters(x, word) >= 3 * (Len(x) + Len(word)) }

\* the message load_batch_request logs: none when it returns a record
DidYouMean == "Batch request not found. Did you mean one of these?"
NothingSimilar == "Batch request not found. Nothing similar found."

load_batch_request_log(yamls, batch_id) ==
    LET ids == SearchIds(yamls)
    IN  IF batch_id \in ids \/ Cardinality(partial_dict_key_match(batch_id, ids)) = 1
        THEN ""
        ELSE IF get_close_matches(batch_id, ids) # {}
        THEN DidYouMean
        ELSE NothingSimilar

\* a load_batch_request that tries the prefix match before the exact match
load_batch_request_prefix_first(yamls, batch_id) ==
    LET ids == SearchIds(yamls)
        partial_matches == partial_dict_key_match(batch_id, ids)
    IN  IF Cardinality(partial_matches) >= 1
        THEN LET k == CHOOSE m \in partial_matches :
                          \A o \in partial_matches : Len(o) <= Len(m)
             IN  [found |-> TRUE, id |-> k]
        ELSE [found |-> batch_id \in ids, id |-> batch_id]

\* a load_batch_request that takes one of several prefix matches
load_batch_request_any_prefix(yamls, batch_id) ==
    LET ids == SearchIds(yamls)
        partial_matches == partial_dict_key_match(batch_id, ids)
    IN  IF batch_id \in ids
        THEN [found |-> TRUE, id |-> batch_id]
        ELSE IF Cardinality(partial_matches) >= 1
        THEN [found |-> TRUE, id |-> CHOOSE k \in partial_matches : TRUE]
        ELSE [found |-> FALSE, id |-> NoId]

\* load_batch_request: the id of the record returned, or none found
load_batch_request(yamls, batch_id) ==
    LET ids == SearchIds(yamls)
        partial_matches == partial_dict_key_match(batch_id, ids)
    IN  IF batch_id \in ids
        THEN [found |-> TRUE, id |-> batch_id]
        ELSE IF Cardinality(partial_matches) = 1
        THEN [found |-> TRUE, id |-> CHOOSE k \in partial_matches : TRUE]
        ELSE [found |-> FALSE, id |-> NoId]

(***************************************************************************)
(* State.                                                                  *)
(***************************************************************************)
VARIABLES
    callA, callB,    \* two make_new invocations: their arguments
    idA, idB,        \* the id each computed (NoId before it ran)
    yamls,           \* the <id>.yaml files of the requests directory, by stem
    jsonls,          \* the <id>.jsonl files of the requests directory, by stem
    request,         \* a BatchRequest object held by a caller of its methods
    ret,             \* what the last method call did and returned
    inv              \* the command invocations: one process each

idVars == <<callA, callB, idA, idB>>
diskVars == <<yamls, jsonls>>
apiVars == <<request, ret>>
cmdVars == <<inv>>
vars == <<callA, callB, idA, idB, yamls, jsonls, request, ret, inv>>

\* an empty directory
NoFiles == <<>>

\* the value of a variable a specification does not use
Unused == "unused"

(***************************************************************************)
(* SpecId: two make_new invocations, on any arguments the make command     *)
(* can pass, possibly on different machines and at different times.        *)
(***************************************************************************)
AllMakeArgs ==
    { MakeArgs(names, p, s, au, d, t) :
        names \in NameLists(MaxIcons), p \in PromptIds, s \in Sizes,
        au \in {"ann"}, d \in {"batch_requests/"},
        t \in {"2024-05-01T10:00:00"} }

\* the same selection run by another author, elsewhere, later
Elsewhere(c) ==
    [c EXCEPT !.author = "bob", !.base_directory = "elsewhere/",
              !.now = "2024-05-02T10:00:00"]

IdInit ==
    /\ callA \in AllMakeArgs
    /\ callB \in {Elsewhere(c) : c \in AllMakeArgs}
    /\ idA = NoId
    /\ idB = NoId
    /\ yamls = NoFiles
    /\ jsonls = NoFiles
    /\ request = Unused
    /\ ret = Unused
    /\ inv = Unused

ComputeIdA ==
    /\ idA = NoId
    /\ idA' = make_new_id(callA.icons, callA.all_icons, callA.prompt_id, callA.size)
    /\ UNCHANGED <<callA, callB, idB, diskVars, apiVars, cmdVars>>

ComputeIdB ==
    /\ idA # NoId
    /\ idB = NoId
    /\ idB' = make_new_id(callB.icons, callB.all_icons, callB.prompt_id, callB.size)
    /\ UNCHANGED <<callA, callB, idA, diskVars, apiVars, cmdVars>>

IdNext == ComputeIdA \/ ComputeIdB

SpecId == IdInit /\ [][IdNext]_vars

(***************************************************************************)
(* SpecApi: one BatchRequest, made and saved, and a caller that invokes    *)
(* its methods in any order.  An execution argument is a reference: to an  *)
(* element of request.execution (every element was returned by a           *)
(* start_new_execution), or to the object another load of the same file    *)
(* holds for that element, equal to it field for field but not part of     *)
(* this request.                                                           *)
(***************************************************************************)
ApiSelections == { << <<"b">>, <<"a">> >> }

ElemRef(i) == [kind |-> "elem", idx |-> i]
TwinRef(i) == [kind |-> "twin", idx |-> i]
NoRef == [kind |-> "none", idx |-> 0]

\* the references a caller can pass
Refs == {ElemRef(i) : i \in 1..Len(request.execution)}
            \cup {TwinRef(i) : i \in 1..Len(request.execution)}

\* the object a reference names, as it is when the call starts
Deref(ref) == request.execution[ref.idx]

\* the request after the object ref names got the fields e: an element of
\* request.execution changes in place, another load's object leaves it alone
Assigned(ref, e) ==
    IF ref.kind = "elem" THEN [request EXCEPT !.execution[ref.idx] = e]
    ELSE request

\* what a call did: the method, its result or error, the execution argument (or
\* the execution returned), and whether it reached self.save()
Returned(op, result, ref, saved) ==
    [op |-> op, result |-> result, ref |-> ref, saved |-> saved]

\* self.save() of the request r
ApiSave(r) ==
    /\ yamls' = WriteFile(yamls, r.id, SavedDict(r))
    /\ UNCHANGED jsonls

ApiInit ==
    /\ \E names \in ApiSelections :
          LET r == NewBatchRequest(MakeArgs(names, <<"p">>, 1, "ann",
                                   "batch_requests/", "2024-05-01T10:00:00"))
          IN  /\ request = r
              /\ yamls = WriteFile(NoFiles, r.id, SavedDict(r))
              /\ jsonls = WriteFile(NoFiles, r.id, populate_base_prompts(r))
    /\ ret = Returned("make_new", "created", NoRef, TRUE)
    /\ callA = Unused /\ callB = Unused /\ idA = Unused /\ idB = Unused
    /\ inv = Unused

ApiStartNewExecution ==
    /\ Len(request.execution) < MaxExec
    /\ \E now \in RunClock :
          /\ request' = start_new_execution(request, now)
          /\ ApiSave(request')
          /\ ret' = Returned("start_new_execution", "execution",
                             ElemRef(Len(request'.execution)), TRUE)
    /\ UNCHANGED <<idVars, cmdVars>>

ApiGetStatus ==
    /\ ret' = Returned("get_status", get_status(request), NoRef, FALSE)
    /\ UNCHANGED <<idVars, cmdVars, diskVars, request>>

ApiGetLastExecution ==
    /\ ret' = Returned("get_last_execution",
                       IF Len(request.execution) = 0 THEN "None" ELSE "execution",
                       IF Len(request.execution) = 0 THEN NoRef
                       ELSE ElemRef(Len(request.execution)), FALSE)
    /\ UNCHANGED <<idVars, cmdVars, diskVars, request>>

ApiSaveUpload ==
    \E ref \in Refs, input_file_id \in FileIds :
        /\ request' = Assigned(ref, UploadFields(Deref(ref), input_file_id))
        /\ ApiSave(request')
        /\ ret' = Returned("save_upload", "None", ref, TRUE)
        /\ UNCHANGED <<idVars, cmdVars>>

ApiSaveSubmit ==
    \E ref \in Refs, batch_id \in JobIds :
        /\ request' = Assigned(ref, SubmitFields(Deref(ref), batch_id))
        /\ ApiSave(request')
        /\ ret' = Returned("save_submit", "None", ref, TRUE)
        /\ UNCHANGED <<idVars, cmdVars>>

ApiUpdateExecutionStatus ==
    \E ref \in Refs, status \in ExternalStatuses :
        /\ request' = Assigned(ref, StatusField(Deref(ref), status))
        /\ ApiSave(request')
        /\ ret' = Returned("update_execution_status", "None", ref, TRUE)
        /\ UNCHANGED <<idVars, cmdVars>>

ApiCompleteExecution ==
    \E ref \in Refs, now \in RunClock :
        /\ request' = Assigned(ref, CompleteFields(Deref(ref), now))
        /\ ApiSave(request')
        /\ ret' = Returned("complete_execution", "None", ref, TRUE)
        /\ UNCHANGED <<idVars, cmdVars>>

\* save_execution with an execution argument
ApiSaveExecution ==
    \E ref \in Refs :
        LET error == save_execution_error(request, Deref(ref))
        IN  /\ ret' = Returned("save_execution",
                               IF error = "" THEN "None" ELSE error, ref,
                               error = "")
            /\ IF error = "" THEN ApiSave(request) ELSE UNCHANGED diskVars
            /\ UNCHANGED <<idVars, cmdVars, request>>

\* save_execution on a request that has no execution: any BatchExecution the
\* caller holds from elsewhere
ApiSaveExecutionNoExecution ==
    /\ Len(request.execution) = 0
    /\ \E now \in RunClock :
          LET error == save_execution_error(request, NewExecution(0, now))
          IN  /\ ret' = Returned("save_execution",
                                 IF error = "" THEN "None" ELSE error, NoRef,
                                 error = "")
              /\ IF error = "" THEN ApiSave(request) ELSE UNCHANGED diskVars
    /\ UNCHANGED <<idVars, cmdVars, request>>

ApiNext ==
    \/ ApiStartNewExecution
    \/ ApiGetStatus
    \/ ApiGetLastExecution
    \/ ApiSaveUpload
    \/ ApiSaveSubmit
    \/ ApiUpdateExecutionStatus
    \/ ApiCompleteExecution
    \/ ApiSaveExecution
    \/ ApiSaveExecutionNoExecution

SpecApi == ApiInit /\ [][ApiNext]_vars

(***************************************************************************)
(* Spec: the commands of generate_labels.py on one requests directory,     *)
(* one invocation at a time.  An invocation is a process; each step is one *)
(* write to disk or one call of the inference service, and a process can   *)
(* die between any two steps.                                              *)
(***************************************************************************)
Procs == {1, 2}

\* the process that runs the commands when they are run one at a time
Serial == {1}

\* what the make command is given in this directory
MakeSelections == { <<>>, << <<"a">> >>, << <<"b">>, <<"a">> >>,
                    << <<"a", "_", "b">> >> }
MakePrompts == { <<"p">> }
MakeSizes == {1}
Makers == { <<"ann", "2024-05-01T10:00:00">>, <<"bob", "2024-05-02T10:00:00">> }

\* the batch_id arguments given to execute, check, download and cancel
Queries == { <<"p", "-", "1">>, <<"p", "-", "1", "-">>,
             <<"p", "-", "1", "-", "a">>,
             <<"p", "-", "1", "-", "a", "_", "b">>,
             <<"q">> }

NoRequest == [id |-> NoId, execution |-> <<>>]

Idle ==
    [ pc    |-> "idle",      \* where the process is in its command
      cmd   |-> "",          \* the command it runs, or ran last
      q     |-> NoId,        \* the batch_id given (make: the id computed)
      force |-> FALSE,       \* make: --force
      req   |-> NoRequest,   \* the BatchRequest it holds
      tmp   |-> "",          \* what the last call of the service returned
      calls |-> {},          \* the service operations it has called
      out   |-> "",          \* how the command ended
      shown |-> {},          \* the (id, status) pairs it printed
      wrote |-> {},          \* the files it wrote to the executions directory,
                             \* which no command reads: (id, execution_id)
      log   |-> "",          \* what load_batch_request logged
      sent  |-> <<>> ]       \* the calls of the service, with what they were given

\* the process record of a command that ended
Ended(cmd, q, force, calls, out, shown) ==
    [Idle EXCEPT !.pc = "done", !.cmd = cmd, !.q = q, !.force = force,
                 !.calls = calls, !.out = out, !.shown = shown]

EndedFrom(i, out) ==
    [Ended(i.cmd, i.q, i.force, i.calls, out, i.shown) EXCEPT
        !.wrote = i.wrote, !.sent = i.sent]

\* the process record after the service was called
Called(i, op, arg) ==
    [i EXCEPT !.calls = @ \cup {op}, !.sent = Append(@, [op |-> op, arg |-> arg])]

\* the process record of a command whose load_batch_request returned None
EndedUnresolved(cmd, q, out) ==
    [Ended(cmd, q, FALSE, {}, out, {}) EXCEPT
        !.log = load_batch_request_log(yamls, q)]

\* the executions in the directory
RECURSIVE RunsIn(_, _)
RunsIn(files, stems) ==
    IF stems = {} THEN 0
    ELSE LET stem == CHOOSE x \in stems : TRUE
         IN  Len(files[stem].execution) + RunsIn(files, stems \ {stem})

Runs == RunsIn(yamls, DOMAIN yamls)

\* the last execution of the request a process holds
LastOf(r) == r.execution[Len(r.execution)]

\* r after the last execution got the fields e
WithLast(r, e) == [r EXCEPT !.execution[Len(r.execution)] = e]

\* load_batch_request followed by what BatchRequest(**raw) holds
Loaded(batch_id) ==
    LET found == load_batch_request(yamls, batch_id)
    IN  IF found.found
        THEN LoadedRequest(yamls[StemOfId(yamls, found.id)],
                           StemOfId(yamls, found.id))
        ELSE NoRequest

\* a save that keeps the executions it finds on disk when they are more than
\* the ones it holds
Save_merging(r) ==
    LET stem == r.path.stem
        mine == SavedDict(r)
    IN  yamls' = WriteFile(yamls, stem,
                    IF stem \in DOMAIN yamls
                       /\ Len(yamls[stem].execution) > Len(mine.execution)
                    THEN [mine EXCEPT !.execution = yamls[stem].execution]
                    ELSE mine)

\* self.save()
Save(r) == yamls' = WriteFile(yamls, r.path.stem, SavedDict(r))

CmdInit ==
    /\ yamls = NoFiles
    /\ jsonls = NoFiles
    /\ inv = [p \in Procs |-> Idle]
    /\ callA = Unused /\ callB = Unused /\ idA = Unused /\ idB = Unused
    /\ request = Unused /\ ret = Unused

\* a process may begin a command when the processes in waitFor are idle
MayBegin(p, waitFor) ==
    /\ inv[p].pc = "idle"
    /\ \A o \in waitFor : inv[o].pc = "idle"

Frame == UNCHANGED <<idVars, apiVars>>

(* ------------------------------ make ---------------------------------- *)
\* a make_new that does not look for the file
make_new_refuses_never(files, id, force) == FALSE

\* make_new: os.path.exists(path) and not force
make_new_refuses(files, id, force) == id \in DOMAIN files /\ ~force

\* make_label_batch_request up to the open(prompts_path, 'w') of
\* populate_base_prompts: the refusal, or the payload file created or
\* truncated
MakeNew(p, waitFor) ==
    /\ MayBegin(p, waitFor)
    /\ \E names \in MakeSelections, prompt_id \in MakePrompts,
          size \in MakeSizes, maker \in Makers, force \in BOOLEAN :
          LET c == MakeArgs(names, prompt_id, size, maker[1],
                            "batch_requests/", maker[2])
              new_request == NewBatchRequest(c)
              id == new_request.id
          IN  IF make_new_refuses(yamls, id, force)
              THEN /\ inv' = [inv EXCEPT ![p] =
                                Ended("make", id, force, {}, "AlreadyExists", {})]
                   /\ UNCHANGED diskVars
              ELSE /\ Cardinality(DOMAIN yamls \cup DOMAIN jsonls \cup {id})
                         <= MaxRecords
                   /\ jsonls' = WriteFile(jsonls, id, <<>>)
                   /\ inv' = [inv EXCEPT ![p] =
                                [Idle EXCEPT !.pc = "make_populate", !.cmd = "make",
                                             !.q = id, !.force = force,
                                             !.req = new_request]]
                   /\ UNCHANGED yamls
    /\ Frame

\* the loop of populate_base_prompts: one line per icon is written to the
\* payload file; resize_and_get_base64 can raise before the lines are there
MakePopulate(p) ==
    /\ inv[p].pc = "make_populate"
    /\ \/ /\ jsonls' = WriteFile(jsonls, inv[p].q,
                                 populate_base_prompts(inv[p].req))
          /\ inv' = [inv EXCEPT ![p].pc = "make_save"]
       \/ /\ inv' = [inv EXCEPT ![p] = EndedFrom(inv[p], "IconError")]
          /\ UNCHANGED jsonls
    /\ UNCHANGED yamls
    /\ Frame

\* new_batch.save()
MakeSave(p) ==
    /\ inv[p].pc = "make_save"
    /\ Save(inv[p].req)
    /\ inv' = [inv EXCEPT ![p] = EndedFrom(inv[p], "created")]
    /\ UNCHANGED jsonls
    /\ Frame

(* ----------------------------- execute -------------------------------- *)
\* load_batch_request and request.load_prompts(): on None the attribute access
\* raises
ExecuteLoad(p, waitFor) ==
    /\ MayBegin(p, waitFor)
    /\ \E q \in Queries :
          LET r == Loaded(q)
          IN  IF r = NoRequest
              THEN inv' = [inv EXCEPT ![p] =
                             EndedUnresolved("execute", q, "AttributeError")]
              ELSE /\ Len(r.execution) < MaxExec
                   /\ Runs < MaxRuns
                   /\ inv' = [inv EXCEPT ![p] =
                                [Idle EXCEPT !.pc = "start", !.cmd = "execute",
                                             !.q = q,
                                             !.req = [r EXCEPT !.prompts =
                                                        load_prompts(jsonls, r)]]]
    /\ UNCHANGED diskVars
    /\ Frame

\* execution = request.start_new_execution()
ExecuteStart(p) ==
    /\ inv[p].pc = "start"
    /\ \E now \in RunClock :
          LET r == start_new_execution(inv[p].req, now)
          IN  /\ Save(r)
              /\ inv' = [inv EXCEPT ![p].req = r, ![p].pc = "upload"]
    /\ UNCHANGED jsonls
    /\ Frame

\* prompts = request.finalize_prompts(execution.execution_id, open_ai_config)
\* and openai.upload_string_as_file(prompts): a file id, or an exception
ExecuteUpload(p) ==
    /\ inv[p].pc = "upload"
    /\ LET prompts == finalize_prompts(inv[p].req,
                                       LastOf(inv[p].req).execution_id, GptModel)
           called == Called(inv[p], "upload", prompts)
       IN  \/ \E file_id \in FileIds :
                 inv' = [inv EXCEPT ![p] =
                           [called EXCEPT !.tmp = file_id, !.pc = "save_upload"]]
           \/ inv' = [inv EXCEPT ![p] = EndedFrom(called, "UploadError")]
    /\ UNCHANGED diskVars
    /\ Frame

\* request.save_upload(execution, file_result.id)
ExecuteSaveUpload(p) ==
    /\ inv[p].pc = "save_upload"
    /\ LET r == WithLast(inv[p].req, UploadFields(LastOf(inv[p].req), inv[p].tmp))
       IN  /\ Save(r)
           /\ inv' = [inv EXCEPT ![p].req = r, ![p].pc = "submit", ![p].tmp = ""]
    /\ UNCHANGED jsonls
    /\ Frame

\* openai.submit_batch_file(execution.input_file_id, ...): a batch, or an
\* exception
ExecuteSubmit(p) ==
    /\ inv[p].pc = "submit"
    /\ LET called == Called(inv[p], "submit", LastOf(inv[p].req).input_file_id)
       IN  \/ \E batch_id \in JobIds :
                 inv' = [inv EXCEPT ![p] =
                           [called EXCEPT !.tmp = batch_id, !.pc = "save_submit"]]
           \/ inv' = [inv EXCEPT ![p] = EndedFrom(called, "SubmitError")]
    /\ UNCHANGED diskVars
    /\ Frame

\* request.save_submit(execution, batch.id)
ExecuteSaveSubmit(p) ==
    /\ inv[p].pc = "save_submit"
    /\ LET r == WithLast(inv[p].req, SubmitFields(LastOf(inv[p].req), inv[p].tmp))
       IN  /\ Save(r)
           /\ inv' = [inv EXCEPT ![p] = EndedFrom(inv[p], "submitted")]
    /\ UNCHANGED jsonls
    /\ Frame

(* ------------------------------ check --------------------------------- *)
\* check_batch_request up to the call of the service
CheckLoad(p, waitFor) ==
    /\ MayBegin(p, waitFor)
    /\ \E q \in Queries :
          LET r == Loaded(q)
              printed == {<<r.id, get_status(r)>>}
          IN  IF r = NoRequest
              THEN inv' = [inv EXCEPT ![p] =
                             EndedUnresolved("check", q, "NotFound")]
              ELSE IF Len(r.execution) = 0
              THEN inv' = [inv EXCEPT ![p] =
                             Ended("check", q, FALSE, {}, "NoExecutions", printed)]
              ELSE IF LastOf(r).batch_id = ""
              THEN inv' = [inv EXCEPT ![p] =
                             Ended("check", q, FALSE, {}, "NotSubmitted", printed)]
              ELSE inv' = [inv EXCEPT ![p] =
                             [Idle EXCEPT !.pc = "poll", !.cmd = "check", !.q = q,
                                          !.req = r, !.shown = printed]]
    /\ UNCHANGED diskVars
    /\ Frame

\* openai.check_batch_file(execution.batch_id): a batch with its status, or an
\* exception
CheckPoll(p) ==
    /\ inv[p].pc = "poll"
    /\ LET called == Called(inv[p], "poll", LastOf(inv[p].req).batch_id)
       IN  \/ \E status \in ExternalStatuses :
                 inv' = [inv EXCEPT ![p] =
                           [called EXCEPT !.tmp = status, !.pc = "update_status"]]
           \/ inv' = [inv EXCEPT ![p] = EndedFrom(called, "PollError")]
    /\ UNCHANGED diskVars
    /\ Frame

\* a check that writes the polled status onto the first execution
CheckUpdate_first(p) ==
    /\ inv[p].pc = "update_status"
    /\ LET r == [inv[p].req EXCEPT !.execution[1] =
                    StatusField(inv[p].req.execution[1], inv[p].tmp)]
       IN  /\ Save(r)
           /\ inv' = [inv EXCEPT ![p] = EndedFrom(inv[p], "checked")]
    /\ UNCHANGED jsonls
    /\ Frame

\* request.update_execution_status(execution, batch.status)
CheckUpdate(p) ==
    /\ inv[p].pc = "update_status"
    /\ LET r == WithLast(inv[p].req, StatusField(LastOf(inv[p].req), inv[p].tmp))
       IN  /\ Save(r)
           /\ inv' = [inv EXCEPT ![p] = EndedFrom(inv[p], "checked")]
    /\ UNCHANGED jsonls
    /\ Frame

(* ----------------------------- download ------------------------------- *)
\* a download that asks for an execution but not for its batch id
download_refusal_no_execution_only(r) ==
    IF Len(r.execution) = 0 THEN "NoExecution" ELSE ""

\* the two tests of download_batch_request on the request it loaded: what it
\* prints before it returns, or "" when it goes on
download_refusal(r) ==
    IF Len(r.execution) = 0 THEN "NoExecution"
    ELSE IF LastOf(r).batch_id = "" THEN "NoBatchId"
    ELSE ""

\* download_batch_request up to the call of the service
DownloadLoad(p, waitFor) ==
    /\ MayBegin(p, waitFor)
    /\ \E q \in Queries :
          LET r == Loaded(q)
          IN  IF r = NoRequest
              THEN inv' = [inv EXCEPT ![p] =
                             EndedUnresolved("download", q, "NotFound")]
              ELSE IF download_refusal(r) # ""
              THEN inv' = [inv EXCEPT ![p] =
                             Ended("download", q, FALSE, {}, download_refusal(r), {})]
              ELSE inv' = [inv EXCEPT ![p] =
                             [Idle EXCEPT !.pc = "fetch", !.cmd = "download",
                                          !.q = q, !.req = r]]
    /\ UNCHANGED diskVars
    /\ Frame

\* a download that marks the execution completed before it fetches
DownloadFetch_completing_first(p) ==
    /\ inv[p].pc = "fetch"
    /\ \E now \in RunClock :
          LET called == Called(inv[p], "fetch", LastOf(inv[p].req).batch_id)
              r == WithLast(inv[p].req, CompleteFields(LastOf(inv[p].req), now))
          IN  /\ Save(r)
              /\ \/ inv' = [inv EXCEPT ![p] =
                              [called EXCEPT !.req = r, !.pc = "write_results"]]
                 \/ inv' = [inv EXCEPT ![p] = EndedFrom(called, "FetchError")]
    /\ UNCHANGED jsonls
    /\ Frame

\* openai.get_batch_file(execution.batch_id): the results, or an exception
DownloadFetch(p) ==
    /\ inv[p].pc = "fetch"
    /\ LET called == Called(inv[p], "fetch", LastOf(inv[p].req).batch_id)
       IN  \/ inv' = [inv EXCEPT ![p] = [called EXCEPT !.pc = "complete"]]
           \/ inv' = [inv EXCEPT ![p] = EndedFrom(called, "FetchError")]
    /\ UNCHANGED diskVars
    /\ Frame

\* request.complete_execution(execution)
DownloadComplete(p) ==
    /\ inv[p].pc = "complete"
    /\ \E now \in RunClock :
          LET r == WithLast(inv[p].req, CompleteFields(LastOf(inv[p].req), now))
          IN  /\ Save(r)
              /\ inv' = [inv EXCEPT ![p].req = r, ![p].pc = "write_results"]
    /\ UNCHANGED jsonls
    /\ Frame

\* the batch file is written to executions/<id>_<execution_id>.jsonl
DownloadWriteResults(p) ==
    /\ inv[p].pc = "write_results"
    /\ inv' = [inv EXCEPT ![p] =
                 [inv[p] EXCEPT !.wrote =
                              {<<inv[p].req.id, LastOf(inv[p].req).execution_id>>},
                            !.pc = "parse"]]
    /\ UNCHANGED diskVars
    /\ Frame

\* the lines of the batch file are parsed and the labels are saved to the
\* label files, which no command of this program reads; a line that is not
\* as expected raises
DownloadParse(p) ==
    /\ inv[p].pc = "parse"
    /\ \/ inv' = [inv EXCEPT ![p] = EndedFrom(inv[p], "downloaded")]
       \/ inv' = [inv EXCEPT ![p] = EndedFrom(inv[p], "ParseError")]
    /\ UNCHANGED diskVars
    /\ Frame

(* --------------------------- list, cancel ----------------------------- *)
\* list_batch_requests: batch_request.status is read for the first request
\* loaded; BatchRequest has no such attribute
List(p, waitFor) ==
    /\ MayBegin(p, waitFor)
    /\ inv' = [inv EXCEPT ![p] =
                 Ended("list", NoId, FALSE, {},
                       IF DOMAIN yamls = {} THEN "No batch requests found."
                       ELSE "AttributeError", {})]
    /\ UNCHANGED diskVars
    /\ Frame

\* a cancel that resolves its batch_id first
Cancel_resolving(p, waitFor) ==
    /\ MayBegin(p, waitFor)
    /\ \E q \in Queries :
          inv' = [inv EXCEPT ![p] =
                    IF Loaded(q) = NoRequest
                    THEN EndedUnresolved("cancel", q, "NotFound")
                    ELSE Ended("cancel", q, FALSE, {}, "NotImplementedError", {})]
    /\ UNCHANGED diskVars
    /\ Frame

\* cancel_batch_request
Cancel(p, waitFor) ==
    /\ MayBegin(p, waitFor)
    /\ \E q \in Queries :
          inv' = [inv EXCEPT ![p] =
                    Ended("cancel", q, FALSE, {}, "NotImplementedError", {})]
    /\ UNCHANGED diskVars
    /\ Frame

\* the process is killed between two steps
Crash(p) ==
    /\ inv[p].pc \notin {"idle", "done"}
    /\ inv' = [inv EXCEPT ![p] = EndedFrom(inv[p], "killed")]
    /\ UNCHANGED diskVars
    /\ Frame

\* the process has ended and its output has been read
Exit(p) ==
    /\ inv[p].pc = "done"
    /\ inv' = [inv EXCEPT ![p] = Idle]
    /\ UNCHANGED diskVars
    /\ Frame

Next ==
    \E p \in Serial :
        \/ MakeNew(p, Procs)
        \/ MakePopulate(p)
        \/ MakeSave(p)
        \/ ExecuteLoad(p, Procs)
        \/ ExecuteStart(p)
        \/ ExecuteUpload(p)
        \/ ExecuteSaveUpload(p)
        \/ ExecuteSubmit(p)
        \/ ExecuteSaveSubmit(p)
        \/ CheckLoad(p, Procs)
        \/ CheckPoll(p)
        \/ CheckUpdate(p)
        \/ DownloadLoad(p, Procs)
        \/ DownloadFetch(p)
        \/ DownloadComplete(p)
        \/ DownloadWriteResults(p)
        \/ DownloadParse(p)
        \/ List(p, Procs)
        \/ Cancel(p, Procs)
        \/ Crash(p)
        \/ Exit(p)

Spec == CmdInit /\ [][Next]_vars

(***************************************************************************)
(* SpecTag: the custom_id of a prompt line from make, through the          *)
(* executions of the request, to the lines the download command parses.    *)
(* The inference service returns each result line with the custom_id of    *)
(* the request line it answers.                                            *)
(***************************************************************************)
\* an icon file with one more row, whose name holds a "|"
TagIconFile == load_all_icons \o << Icon(<<"a", "|", "b">>, "icons/a|b.png") >>

\* the --icons given to make: one or two names of the icon file
TagSelections ==
    { <<x>> : x \in NamesIn(TagIconFile) }
        \cup { <<x, y>> : x \in NamesIn(TagIconFile), y \in NamesIn(TagIconFile) }

\* s.split(sep) for a separator of one character
RECURSIVE split(_, _)
split(s, sep) ==
    IF \A i \in 1..Len(s) : s[i] # sep
    THEN <<s>>
    ELSE LET k == CHOOSE i \in 1..Len(s) :
                     /\ s[i] = sep
                     /\ \A j \in 1..(i - 1) : s[j] # sep
         IN  <<SubSeq(s, 1, k - 1)>> \o split(SubSeq(s, k + 1, Len(s)), sep)

\* given_request_id, icon_name, given_execution_id = custom_id.split("|"):
\* unpacking anything but three parts raises ValueError
ParseCustomId(custom_id) ==
    LET parts == split(custom_id, "|")
    IN  IF Len(parts) = 3
        THEN [error |-> "", given_request_id |-> parts[1],
              icon_name |-> parts[2], given_execution_id |-> parts[3]]
        ELSE [error |-> "ValueError", given_request_id |-> NoId,
              icon_name |-> NoId, given_execution_id |-> NoId]

TagReturned(op, parsed) == [op |-> op, parsed |-> parsed]

TagInit ==
    /\ \E names \in TagSelections, prompt_id \in PromptIds, size \in Sizes :
          request = [self |-> NewBatchRequest(
                                 MakeArgsFrom(TagIconFile, names, prompt_id, size,
                                              "ann", "batch_requests/",
                                              "2024-05-01T10:00:00")),
                     lines |-> <<>>,
                     sent |-> <<>>]
    /\ ret = TagReturned("none", <<>>)
    /\ yamls = Unused /\ jsonls = Unused
    /\ callA = Unused /\ callB = Unused /\ idA = Unused /\ idB = Unused
    /\ inv = Unused

\* make: populate_base_prompts writes the payload lines
TagPopulate ==
    /\ ret.op = "none"
    /\ request' = [request EXCEPT !.lines = populate_base_prompts(request.self)]
    /\ ret' = TagReturned("populated", <<>>)
    /\ UNCHANGED <<idVars, diskVars, cmdVars>>

\* execute: load_prompts, start_new_execution and finalize_prompts; the
\* lines are uploaded
TagExecute ==
    /\ ret.op \in {"populated", "parsed"}
    /\ Len(request.self.execution) < MaxExec
    /\ \E now \in RunClock :
          LET started == start_new_execution(
                            [request.self EXCEPT !.prompts = request.lines], now)
          IN  request' = [request EXCEPT
                            !.self = started,
                            !.sent = finalize_prompts(
                                        started,
                                        started.execution[Len(started.execution)]
                                            .execution_id,
                                        GptModel)]
    /\ ret' = TagReturned("executed", <<>>)
    /\ UNCHANGED <<idVars, diskVars, cmdVars>>

\* download: each line of the batch file is split
TagDownload ==
    /\ ret.op = "executed"
    /\ ret' = TagReturned("parsed",
                          [i \in 1..Len(request.sent) |->
                              ParseCustomId(request.sent[i].custom_id)])
    /\ UNCHANGED <<idVars, diskVars, cmdVars, request>>

TagNext == TagPopulate \/ TagExecute \/ TagDownload

SpecTag == TagInit /\ [][TagNext]_vars

(***************************************************************************)
(* SpecConc: two invocations of execute and check running at the same time *)
(* on a requests directory that holds one request, made by                 *)
(* `make --prompt p --size 1 --icons a`.  Nothing in save() or in the      *)
(* commands takes a lock, so the steps of the two processes interleave in  *)
(* every order.                                                            *)
(***************************************************************************)
ConcRequest ==
    NewBatchRequest(MakeArgs(<< <<"a">> >>, <<"p">>, 1, "ann",
                             "batch_requests/", "2024-05-01T10:00:00"))

ConcInit ==
    /\ yamls = WriteFile(NoFiles, ConcRequest.id, SavedDict(ConcRequest))
    /\ jsonls = WriteFile(NoFiles, ConcRequest.id,
                          populate_base_prompts(ConcRequest))
    /\ inv = [p \in Procs |-> Idle]
    /\ callA = Unused /\ callB = Unused /\ idA = Unused /\ idB = Unused
    /\ request = Unused /\ ret = Unused

ConcNext ==
    \E p \in Procs :
        \/ ExecuteLoad(p, {})
        \/ ExecuteStart(p)
        \/ ExecuteUpload(p)
        \/ ExecuteSaveUpload(p)
        \/ ExecuteSubmit(p)
        \/ ExecuteSaveSubmit(p)
        \/ CheckLoad(p, {})
        \/ CheckPoll(p)
        \/ CheckUpdate(p)
        \/ Crash(p)
        \/ Exit(p)

SpecConc == ConcInit /\ [][ConcNext]_vars

(***************************************************************************)
(* SpecRepo: save() and load_all_batch_requests on one requests directory, *)
(* with the icon file each invocation is given.                            *)
(***************************************************************************)
\* the --icons of the requests saved
RepoSelections == { <<>>, << <<"a">> >>, << <<"b">>, <<"a">> >>,
                    << <<"a", "_", "b">> >> }

\* the execution lists the methods of BatchRequest build
Histories ==
    LET now == "2024-05-03T10:00:00"
        starting  == NewExecution(0, now)
        submitted == SubmitFields(UploadFields(starting, "file_123"), "job_456")
        completed == CompleteFields(submitted, now)
    IN  { <<>>, <<starting>>, <<submitted>>, <<completed>>,
          <<completed, NewExecution(1, now)>> }

\* what an operation on the directory returned
RepoReturned(op, all_icons, result) ==
    [op |-> op, all_icons |-> all_icons, result |-> result]

RepoInit ==
    /\ yamls = NoFiles
    /\ jsonls = NoFiles
    /\ request = [self |-> NoRequest, all_icons |-> <<>>]
    /\ ret = RepoReturned("none", <<>>, <<>>)
    /\ callA = Unused /\ callB = Unused /\ idA = Unused /\ idB = Unused
    /\ inv = Unused

\* a BatchRequest made with the icon file all_icons, and run, is saved
RepoSave ==
    \E all_icons \in IconFiles, names \in RepoSelections, execution \in Histories :
        /\ \A i \in 1..Len(names) : names[i] \in NamesIn(all_icons)
        /\ LET made == NewBatchRequest(
                          MakeArgsFrom(all_icons, names, <<"p">>, 1, "ann",
                                       "batch_requests/", "2024-05-01T10:00:00"))
               self == [made EXCEPT !.execution = execution]
           IN  /\ Cardinality(DOMAIN yamls \cup {self.id}) <= MaxRecords
               /\ yamls' = WriteFile(yamls, self.id, SavedDict(self))
               /\ request' = [self |-> self, all_icons |-> all_icons]
               /\ ret' = RepoReturned("save", all_icons, <<>>)
    /\ UNCHANGED <<idVars, cmdVars, jsonls>>

\* load_all_batch_requests(batch_requests_dir, icon_file)
RepoLoadAll ==
    \E all_icons \in IconFiles :
        /\ ret' = RepoReturned("load_all", all_icons,
                               load_all_batch_requests(yamls, all_icons))
        /\ UNCHANGED <<idVars, cmdVars, diskVars, request>>

RepoNext == RepoSave \/ RepoLoadAll

SpecRepo == RepoInit /\ [][RepoNext]_vars

(***************************************************************************)
(* Claims about the id.                                                    *)
(***************************************************************************)
\* the arrangements of a list of names
PermutationsOf(names) ==
    { [i \in 1..Len(names) |-> names[f[i]]] :
        f \in {g \in [1..Len(names) -> 1..Len(names)] :
                  \A i, j \in 1..Len(names) : i # j => g[i] # g[j]} }

Ascending(names) ==
    \A i \in 1..(Len(names) - 1) : ~StrLess(names[i + 1], names[i])

\* how often a name occurs in a list
RECURSIVE Occurrences(_, _)
Occurrences(name, names) ==
    IF names = <<>> THEN 0
    ELSE (IF Head(names) = name THEN 1 ELSE 0) + Occurrences(name, Tail(names))

IsHashString(h) ==
    /\ Len(h) >= 1
    /\ \A i \in 1..Len(h) :
          \E k \in 1..Len(Base36Alphabet) : h[i] = Base36Alphabet[k]

IdStem(c) == c.prompt_id \o <<"-">> \o str(c.size)

IdHasTheThreeForms(c, id) ==
    IF c.all_icons
    THEN id = IdStem(c)
    ELSE IF Len(c.icons) <= 3
    THEN \E arranged \in PermutationsOf(IconNamesOf(c.icons)) :
            /\ Ascending(arranged)
            /\ id = IdStem(c) \o <<"-">> \o join(<<"_">>, arranged)
    ELSE /\ Len(id) > Len(IdStem(c)) + 1
         /\ SubSeq(id, 1, Len(IdStem(c)) + 1) = IdStem(c) \o <<"-">>
         /\ IsHashString(SubSeq(id, Len(IdStem(c)) + 2, Len(id)))

\* C1: make_new derives the id by three cases: "{promptId}-{size}" when
\* useAllIcons; "{promptId}-{size}-" followed by the icon names sorted and joined
\* with underscores when at most 3 icons are selected (icons [b, a], size 12,
\* prompt p give "p-12-a_b"); "{promptId}-{size}-{H}" with H a hash string
\* otherwise.
C1_IdThreeCases ==
    /\ idA # NoId => IdHasTheThreeForms(callA, idA)
    /\ idB # NoId => IdHasTheThreeForms(callB, idB)
    /\ ( /\ idA # NoId
         /\ ~callA.all_icons
         /\ IconNamesOf(callA.icons) = << <<"b">>, <<"a">> >>
         /\ callA.size = 12
         /\ callA.prompt_id = <<"p">> )
       => idA = <<"p", "-", "1", "2", "-", "a", "_", "b">>

\* C1 witness: one invocation took the short, sorted form on [b, a], the other
\* hashed a list of more than 3 icons.
C1_Witness ==
    /\ idA = <<"p", "-", "1", "2", "-", "a", "_", "b">>
    /\ IconNamesOf(callA.icons) = << <<"b">>, <<"a">> >>
    /\ idB # NoId
    /\ ~callB.all_icons
    /\ Len(callB.icons) > 3

SameSelectionInputs ==
    /\ callA.prompt_id = callB.prompt_id
    /\ callA.size = callB.size
    /\ callA.all_icons = callB.all_icons

SameNameSet ==
    {callA.icons[i].name : i \in 1..Len(callA.icons)}
        = {callB.icons[i].name : i \in 1..Len(callB.icons)}

SameNameCounts ==
    \A n \in CatalogNames :
        Occurrences(n, IconNamesOf(callA.icons))
            = Occurrences(n, IconNamesOf(callB.icons))

\* C2 as stated: two make_new invocations with the same promptId, size,
\* useAllIcons flag and the same set of icon names yield the same id, whatever
\* the order of the names, the author, the base directory and the time.
C2_SameSetSameId ==
    (idA # NoId /\ idB # NoId /\ SameSelectionInputs /\ SameNameSet)
        => idA = idB

\* C2 amended: two make_new invocations with the same promptId, size,
\* useAllIcons flag and the same icon names, each the same number of times,
\* yield the same id, whatever the order of the names, the author, the base
\* directory and the time.
C2_SameNamesSameId ==
    (idA # NoId /\ idB # NoId /\ SameSelectionInputs /\ SameNameCounts)
        => idA = idB

\* C2 witness: the same four names in two different orders, by another author,
\* in another directory, at another time, gave one hashed id.
C2_Witness ==
    /\ idA # NoId /\ idB # NoId
    /\ SameSelectionInputs /\ SameNameCounts
    /\ Len(callA.icons) = 4
    /\ ~callA.all_icons
    /\ IconNamesOf(callA.icons) # IconNamesOf(callB.icons)
    /\ callA.author # callB.author
    /\ callA.base_directory # callB.base_directory
    /\ callA.now # callB.now
    /\ idA = idB

(***************************************************************************)
(* Claims about the methods of BatchRequest (SpecApi).                     *)
(***************************************************************************)
\* the number a decimal string denotes
RECURSIVE DecimalValue(_)
DecimalValue(digits) ==
    IF digits = <<>> THEN 0
    ELSE 10 * DecimalValue(SubSeq(digits, 1, Len(digits) - 1))
         + (CHOOSE d \in 0..9 : Digit(d) = digits[Len(digits)])

\* the executions in the saved file of the request
Persisted == yamls[request.id].execution

\* position i (from 0) holds the execution with executionIndex i
IndexedByPosition(executions) ==
    /\ \A i \in 1..Len(executions) :
          DecimalValue(executions[i].execution_id) = i - 1
    /\ \A i, j \in 1..Len(executions) :
          i # j => executions[i].execution_id # executions[j].execution_id

\* C4: start_new_execution, in any state, appends exactly one execution with
\* status "starting", empty completedAt, inputFileId and externalJobId and
\* executionIndex = the length before the call, persists the request and returns
\* that record; so position i always holds executionIndex i, without repeats.
C4_StartNewExecution ==
    [][ /\ ret'.op = "start_new_execution" =>
             LET n == Len(request.execution)
                 new == request'.execution[n + 1]
             IN  /\ Len(request'.execution) = n + 1
                 /\ SubSeq(request'.execution, 1, n) = request.execution
                 /\ new.status = "starting"
                 /\ new.when_completed = ""
                 /\ new.input_file_id = ""
                 /\ new.batch_id = ""
                 /\ DecimalValue(new.execution_id) = n
                 /\ ret'.ref = ElemRef(n + 1)
                 /\ yamls'[request.id].execution = request'.execution
        /\ IndexedByPosition(request'.execution)
        /\ IndexedByPosition(yamls'[request.id].execution)
      ]_vars

\* C4 witness: a second execution was started while the first was still
\* "starting", and was returned.
C4_Witness ==
    /\ ret.op = "start_new_execution"
    /\ ret.ref = ElemRef(2)
    /\ Len(request.execution) = 2
    /\ request.execution[1].status = "starting"
    /\ Persisted = request.execution

\* C6 as stated: only the last element of executions is ever mutated: every
\* element before the last keeps all its fields under every method call, in
\* memory and on disk.
C6_OnlyLastMutated ==
    [][ \A i \in 1..(Len(request.execution) - 1) :
            /\ request'.execution[i] = request.execution[i]
            /\ yamls'[request.id].execution[i] = Persisted[i]
      ]_vars

\* what C7 says save_execution refuses: no execution, or an argument that is not
\* the very object at the end of executions
RefusedByIdentity(ref) ==
    \/ Len(request.execution) = 0
    \/ ref # ElemRef(Len(request.execution))

\* what save_execution compares: the fields of the argument with those of the
\* last element
RefusedByFields(ref) ==
    \/ Len(request.execution) = 0
    \/ ref = NoRef
    \/ request.execution[ref.idx] # request.execution[Len(request.execution)]

SaveExecutionRefused ==
    /\ ret'.result # "None"
    /\ ~ret'.saved
    /\ yamls' = yamls

SaveExecutionPersisted ==
    /\ ret'.result = "None"
    /\ ret'.saved
    /\ yamls'[request.id] = SavedDict(request)

\* C7 as stated: save_execution fails, writing nothing, when executions is empty
\* or the argument is not the very same record as the last element, and persists
\* only when the argument is the last element.
C7_SaveExecutionIdentity ==
    [][ ret'.op = "save_execution" =>
            IF RefusedByIdentity(ret'.ref)
            THEN SaveExecutionRefused ELSE SaveExecutionPersisted ]_vars

\* C7 amended: save_execution fails, writing nothing, when executions is empty
\* or the argument differs in some field from the last element, and persists the
\* request otherwise: also for another object whose fields all equal the last
\* element's.
C7_SaveExecutionGuard ==
    [][ ret'.op = "save_execution" =>
            IF RefusedByFields(ret'.ref)
            THEN SaveExecutionRefused ELSE SaveExecutionPersisted ]_vars

\* C7 witness: with two executions, save_execution was refused for the first of
\* them.
C7_Witness ==
    /\ ret.op = "save_execution"
    /\ Len(request.execution) = 2
    /\ ret.ref = ElemRef(1)
    /\ ret.result = "ValueError: Execution does not match the last execution."
    /\ ~ret.saved

(***************************************************************************)
(* Claims about the commands, checked under Spec.                          *)
(***************************************************************************)
\* C3: when the metadata file of the computed id exists and force is false,
\* the make command ends with AlreadyExists in its first step and leaves the
\* metadata files and the payload files, the execution history among them,
\* as they were; and it ends so in no other case.
C3_RefusalWritesNothing ==
    [][\A p \in Procs :
          (inv[p].pc = "idle" /\ inv'[p].pc # "idle" /\ inv'[p].cmd = "make")
          => /\ (inv'[p].q \in DOMAIN yamls /\ ~inv'[p].force)
                => /\ inv'[p].pc = "done"
                   /\ inv'[p].out = "AlreadyExists"
                   /\ yamls' = yamls
                   /\ jsonls' = jsonls
             /\ inv'[p].out = "AlreadyExists"
                => (inv'[p].q \in DOMAIN yamls /\ ~inv'[p].force)]_vars

\* a make was refused for an id that has an execution on disk
C3_Witness ==
    \E p \in Procs :
        /\ inv[p].pc = "done" /\ inv[p].cmd = "make"
        /\ inv[p].out = "AlreadyExists"
        /\ inv[p].q \in DOMAIN yamls
        /\ inv[p].q \in DOMAIN jsonls
        /\ Len(yamls[inv[p].q].execution) > 0

\* every record of old is still in new, at its place
HistoryKept(old, new) ==
    /\ Len(new) >= Len(old)
    /\ \A i \in 1..Len(old) :
          /\ new[i].execution_id = old[i].execution_id
          /\ new[i].when_started = old[i].when_started

\* the step is the save of a make --force for the id
ForcedMakeSaves(id) ==
    \E p \in Procs :
        /\ inv[p].pc = "make_save" /\ inv[p].force /\ inv[p].q = id
        /\ inv'[p].out = "created"

\* the step is the save of start_new_execution for the id
StartSaves(id) ==
    \E p \in Procs :
        /\ inv[p].pc = "start" /\ inv[p].req.id = id
        /\ inv'[p].pc = "upload"

\* C5 as stated: no step of any command, a make --force included, makes the
\* persisted history of an id shorter or removes a record from it.
C5_AppendOnly ==
    [][\A id \in DOMAIN yamls :
          /\ id \in DOMAIN yamls'
          /\ HistoryKept(yamls[id].execution, yamls'[id].execution)]_vars

\* C5, amended: the persisted history of an id keeps its records and its
\* length over every step of make without force, execute, check and download;
\* it grows by one record at a time and only in the save of
\* start_new_execution; a new id starts with an empty history; the save of a
\* make --force leaves the id with an empty history.
C5_AppendOnlyUnlessForced ==
    [][/\ \A id \in DOMAIN yamls :
             /\ id \in DOMAIN yamls'
             /\ LET old == yamls[id].execution
                    new == yamls'[id].execution
                IN  IF ForcedMakeSaves(id)
                    THEN new = <<>>
                    ELSE /\ HistoryKept(old, new)
                         /\ Len(new) > Len(old)
                            => /\ Len(new) = Len(old) + 1
                               /\ StartSaves(id)
       /\ \A id \in DOMAIN yamls' \ DOMAIN yamls :
             yamls'[id].execution = <<>>]_vars

\* an id has a history of two executions, and a make --force of another id
\* that had a metadata file has ended
C5_Witness ==
    /\ \E id \in DOMAIN yamls :
          /\ Len(yamls[id].execution) = 2
          /\ yamls[id].execution[1].execution_id = str(0)
          /\ yamls[id].execution[2].execution_id = str(1)
    /\ \E p \in Procs :
          /\ inv[p].pc = "done" /\ inv[p].cmd = "make" /\ inv[p].force
          /\ inv[p].out = "created"
          /\ yamls[inv[p].q].when_created = "2024-05-02T10:00:00"

\* C8 as stated, for the list command: when it has ended on a directory with
\* requests, it has shown for each request the status of its last execution,
\* or "created".
C8_ListShowsLastStatus ==
    \A p \in Procs :
        (inv[p].pc = "done" /\ inv[p].cmd = "list" /\ DOMAIN yamls # {})
        => inv[p].shown =
              { <<yamls[stem].id, get_status(yamls[stem])>> : stem \in DOMAIN yamls }

\* the place of a status in starting -> uploaded -> submitted -> externally
\* reported -> completed
Rank(status) ==
    CASE status = "starting"  -> 0
      [] status = "uploaded"  -> 1
      [] status = "submitted" -> 2
      [] status = "completed" -> 4
      [] OTHER                -> 3

\* the place of a status among the statuses execute sets; 3 for the others
LocalRank(status) == IF Rank(status) < 3 THEN Rank(status) ELSE 3

\* C9 as stated: no step moves the status of a persisted execution backwards
\* in starting -> uploaded -> submitted -> externally reported -> completed,
\* or changes it once it is completed.
C9_StatusOrder ==
    [][\A id \in DOMAIN yamls \cap DOMAIN yamls' :
          \A i \in 1..Len(yamls[id].execution) :
             i <= Len(yamls'[id].execution)
             => LET old == yamls[id].execution[i].status
                    new == yamls'[id].execution[i].status
                IN  /\ Rank(new) >= Rank(old)
                    /\ old = "completed" => new = "completed"]_vars

\* C9, amended: the status of a persisted execution never returns to
\* starting, uploaded or submitted once it has left it, and reaches submitted
\* one step at a time; after that it is what the last check or download
\* wrote, so that a completed execution changes only in the save of a check,
\* to the status the service reported.
C9_StatusNeverReturns ==
    [][\A id \in DOMAIN yamls \cap DOMAIN yamls' :
          \A i \in 1..Len(yamls[id].execution) :
             i <= Len(yamls'[id].execution)
             => LET old == yamls[id].execution[i].status
                    new == yamls'[id].execution[i].status
                IN  /\ LocalRank(new) >= LocalRank(old)
                    /\ LocalRank(old) < 2 => LocalRank(new) <= LocalRank(old) + 1
                    /\ (old = "completed" /\ new # "completed")
                       => \E p \in Procs :
                             /\ inv[p].pc = "update_status"
                             /\ inv[p].req.id = id
                             /\ new = inv[p].tmp]_vars

\* an execution that was completed by a download has the status a later
\* check wrote
C9_Witness ==
    \E id \in DOMAIN yamls :
        \E i \in 1..Len(yamls[id].execution) :
            /\ yamls[id].execution[i].when_completed # ""
            /\ yamls[id].execution[i].batch_id # ""
            /\ yamls[id].execution[i].status = "in_progress"

BeginsWith(id, q) == Len(q) <= Len(id) /\ SubSeq(id, 1, Len(q)) = q

\* the ids on disk that begin with q
PrefixCandidates(q) == {id \in SearchIds(yamls) : BeginsWith(id, q)}

\* the commands that resolve their batch_id
Resolving == {"execute", "check", "download"}

\* the outcomes of a command that was handed no record
NoRecordOutcomes == {"NotFound", "AttributeError"}

NotFoundMessages == {DidYouMean, NothingSimilar}

\* C12 as stated: a command whose batch_id is the id of no record and the
\* beginning of several ids ends with an outcome of its own, and not with the
\* outcome and the message of a command whose batch_id matches nothing.
C12_AmbiguousSurfaced ==
    \A p \in Procs :
        (/\ inv[p].pc = "done" /\ inv[p].cmd \in Resolving
         /\ inv[p].q \notin SearchIds(yamls)
         /\ Cardinality(PrefixCandidates(inv[p].q)) >= 2)
        => ~(inv[p].out \in NoRecordOutcomes /\ inv[p].log \in NotFoundMessages)

(***************************************************************************)
(* Claims about save and load, checked under SpecRepo.                     *)
(***************************************************************************)
\* the names a saved file holds are all in the icon file
AllNamesKnown(raw, all_icons) ==
    raw.use_all_icons
    \/ \A i \in 1..Len(raw.icons) :
          \E j \in 1..Len(all_icons) : all_icons[j].name = raw.icons[i]

\* C13: load_all_batch_requests raises the icon-not-found error when a file
\* with an explicit selection names an icon the icon file does not have;
\* otherwise it returns one BatchRequest per metadata file, an explicit
\* selection as the icons of the icon file with the stored names in the
\* stored order, a use-all-icons record as all the icons of the icon file.
C13_LoadAllResolvesIcons ==
    ret.op = "load_all"
    => LET all_icons == ret.all_icons
           result == ret.result
       IN  IF \E stem \in DOMAIN yamls : ~AllNamesKnown(yamls[stem], all_icons)
           THEN result.error = IconNotFound /\ result.requests = <<>>
           ELSE /\ result.error = ""
                /\ DOMAIN result.requests = DOMAIN yamls
                /\ \A stem \in DOMAIN yamls :
                      LET loaded == result.requests[stem]
                          raw == yamls[stem]
                      IN  /\ loaded.id = raw.id
                          /\ loaded.use_all_icons = raw.use_all_icons
                          /\ raw.use_all_icons => loaded.icons = all_icons
                          /\ ~raw.use_all_icons
                             => /\ Len(loaded.icons) = Len(raw.icons)
                                /\ \A i \in 1..Len(raw.icons) :
                                      /\ loaded.icons[i].name = raw.icons[i]
                                      /\ \E j \in 1..Len(all_icons) :
                                            all_icons[j] = loaded.icons[i]

\* a directory with a use-all-icons record and a record that names b was
\* loaded with the icon file that has no b
C13_Witness ==
    /\ ret.op = "load_all"
    /\ ret.result.error = IconNotFound
    /\ Len(ret.all_icons) = 2
    /\ \E stem \in DOMAIN yamls : yamls[stem].use_all_icons
    /\ \E stem \in DOMAIN yamls :
          /\ ~yamls[stem].use_all_icons
          /\ \E i \in 1..Len(yamls[stem].icons) : yamls[stem].icons[i] = <<"b">>

\* the fields of a BatchRequest but the payload cache and the path
Reproduced(self) ==
    [ id            |-> self.id,
      prompt_id     |-> self.prompt_id,
      size          |-> self.size,
      icons         |-> self.icons,
      use_all_icons |-> self.use_all_icons,
      when_created  |-> self.when_created,
      author        |-> self.author,
      execution     |-> self.execution ]

\* the directory was loaded with the icon file the request saved last was
\* made with
ReloadedAfterSave ==
    /\ ret.op = "load_all"
    /\ request.self # NoRequest
    /\ ret.all_icons = request.all_icons

\* the request loaded from the file of the request saved last has its id,
\* prompt id, size, icons, use-all-icons flag, creation time, author and
\* executions, every field of every execution in order
SavedIsReproduced ==
    /\ ret.result.error = ""
    /\ request.self.id \in DOMAIN ret.result.requests
    /\ Reproduced(ret.result.requests[request.self.id]) = Reproduced(request.self)

\* C19 as stated: a BatchRequest that was saved is reproduced whenever the
\* directory is loaded with the icon file it was made with.
C19_SaveLoadReproduces == ReloadedAfterSave => SavedIsReproduced

\* C19, amended: a BatchRequest that was saved is reproduced when the
\* directory is loaded with the icon file it was made with and no other file
\* of the directory names an icon that icon file does not have; when one
\* does, the load raises the icon-not-found error and returns no request.
C19_SaveLoadRoundTrip ==
    ReloadedAfterSave
    => IF \A stem \in DOMAIN yamls : AllNamesKnown(yamls[stem], ret.all_icons)
       THEN SavedIsReproduced
       ELSE ret.result.error = IconNotFound /\ ret.result.requests = <<>>

\* the request made with --icons b a, with a completed and a starting
\* execution, was saved and loaded
C19_Witness ==
    /\ ret.op = "load_all"
    /\ request.self # NoRequest
    /\ ret.all_icons = request.all_icons
    /\ ret.result.error = ""
    /\ IconNamesOf(request.self.icons) = << <<"b">>, <<"a">> >>
    /\ Len(request.self.execution) = 2
    /\ request.self.execution[1].when_completed # ""
    /\ ret.result.requests[request.self.id].execution = request.self.execution

(***************************************************************************)
(* Claims about the steps of execute, check, download and cancel, checked  *)
(* under Spec.                                                             *)
(***************************************************************************)
\* the lines handed to the upload are the stored lines, as many and in their
\* order, each with the model put in and its custom_id followed by "|" and
\* the execution_id
FinalizedFrom(lines, stored, execution_id) ==
    /\ Len(lines) = Len(stored)
    /\ \A k \in 1..Len(stored) :
          /\ lines[k].custom_id = stored[k].custom_id \o <<"|">> \o execution_id
          /\ lines[k].body.model = GptModel
          /\ lines[k].body.prompt = stored[k].body.prompt
          /\ lines[k].body.icon = stored[k].body.icon
          /\ lines[k].method = stored[k].method
          /\ lines[k].url = stored[k].url

\* C14: the string execute uploads holds one line per line of the payload
\* file, whether the file holds lines or was left empty by a make that did not
\* end, in the order of the file, line k being stored line k with the model
\* name put in and its custom_id followed by "|" and the execution_id of the
\* execution just started; the payload file and the lines held in memory are
\* left as they were.
C14_FinalizeKeepsLines ==
    [][\A p \in Procs :
          (inv[p].pc = "upload" /\ inv'[p].pc # "upload" /\ "upload" \in inv'[p].calls)
          => LET stored == jsonls[inv[p].req.path.stem]
                 lines == inv'[p].sent[Len(inv'[p].sent)].arg
             IN  /\ inv'[p].sent[Len(inv'[p].sent)].op = "upload"
                 /\ FinalizedFrom(lines, stored, LastOf(inv[p].req).execution_id)
                 /\ jsonls' = jsonls
                 /\ inv[p].req.prompts = stored
                 /\ inv'[p].pc # "done" => inv'[p].req.prompts = stored]_vars

\* the two lines of the request made with --icons b a were uploaded for its
\* second execution
C14_Witness ==
    \E p \in Procs :
        /\ inv[p].pc = "save_upload"
        /\ Len(inv[p].sent) = 1
        /\ Len(inv[p].sent[1].arg) = 2
        /\ inv[p].sent[1].arg[1].custom_id =
              inv[p].req.id \o <<"|", "b", "|", "1">>
        /\ inv[p].sent[1].arg[2].custom_id =
              inv[p].req.id \o <<"|", "a", "|", "1">>
        /\ jsonls[inv[p].req.path.stem][1].body.model = ""

\* the last execution in the metadata file of the request r
LastPersisted(files, r) ==
    files[r.path.stem].execution[Len(files[r.path.stem].execution)]

IsStarting(e) == e.status = "starting" /\ e.input_file_id = "" /\ e.batch_id = ""
IsUploaded(e) == e.status = "uploaded" /\ e.input_file_id # "" /\ e.batch_id = ""
IsSubmitted(e) == e.status = "submitted" /\ e.input_file_id # "" /\ e.batch_id # ""

\* C15: execute goes through start_new_execution, finalize_prompts and the
\* upload, save_upload, the submit, save_submit in this order and saves after
\* each; where it is killed or a call fails the file is left as the last save
\* wrote it: starting with no handles until save_upload has run, uploaded
\* with the file id of the upload and no batch id until save_submit has run,
\* submitted with both afterwards; the submit is given the file id that
\* save_upload saved.
C15_ExecutePersistsEachStep ==
    [][\A p \in Procs :
          (inv[p].cmd = "execute" /\ inv[p].pc \notin {"idle", "done"}
           /\ inv'[p] # inv[p])
          => LET r == inv[p].req
                 now == inv'[p]
                 stopped == now.pc = "done" /\ now.out \in {"killed", "UploadError", "SubmitError"}
             IN  /\ stopped => yamls' = yamls
                 /\ now.out = "killed" => now.sent = inv[p].sent
                 /\ inv[p].pc = "start"
                    => /\ inv[p].sent = <<>>
                       /\ ~stopped
                          => /\ now.pc = "upload"
                             /\ Len(yamls'[r.path.stem].execution)
                                   = Len(yamls[r.path.stem].execution) + 1
                             /\ IsStarting(LastPersisted(yamls', r))
                 /\ inv[p].pc = "upload"
                    => /\ IsStarting(LastPersisted(yamls, r))
                       /\ yamls' = yamls
                       /\ now.out = "UploadError" \/ now.pc = "save_upload" \/ now.out = "killed"
                       /\ now.out # "killed"
                          => Len(now.sent) = 1 /\ now.sent[1].op = "upload"
                 /\ inv[p].pc = "save_upload"
                    => /\ IsStarting(LastPersisted(yamls, r))
                       /\ ~stopped
                          => /\ now.pc = "submit"
                             /\ IsUploaded(LastPersisted(yamls', r))
                             /\ LastPersisted(yamls', r).input_file_id = inv[p].tmp
                             /\ inv[p].tmp \in FileIds
                 /\ inv[p].pc = "submit"
                    => /\ IsUploaded(LastPersisted(yamls, r))
                       /\ yamls' = yamls
                       /\ now.out = "SubmitError" \/ now.pc = "save_submit" \/ now.out = "killed"
                       /\ now.out # "killed"
                          => /\ Len(now.sent) = 2
                             /\ now.sent[2] =
                                   [op  |-> "submit",
                                    arg |-> LastPersisted(yamls, r).input_file_id]
                 /\ inv[p].pc = "save_submit"
                    => /\ IsUploaded(LastPersisted(yamls, r))
                       /\ ~stopped
                          => /\ now.pc = "done" /\ now.out = "submitted"
                             /\ IsSubmitted(LastPersisted(yamls', r))
                             /\ LastPersisted(yamls', r).batch_id = inv[p].tmp
                             /\ LastPersisted(yamls', r).input_file_id
                                   = LastPersisted(yamls, r).input_file_id]_vars

\* an execute ended because the submit failed, and the last execution on disk
\* is uploaded with its file id and no batch id
C15_Witness ==
    \E p \in Procs :
        /\ inv[p].pc = "done" /\ inv[p].cmd = "execute"
        /\ inv[p].out = "SubmitError"
        /\ inv[p].calls = {"upload", "submit"}
        /\ inv[p].q \in DOMAIN yamls
        /\ Len(yamls[inv[p].q].execution) > 0
        /\ LET e == yamls[inv[p].q].execution[Len(yamls[inv[p].q].execution)]
           IN  IsUploaded(e) /\ e.input_file_id = inv[p].sent[2].arg

\* the metadata file of the request r is as r was loaded
AsLoaded(files, r) ==
    /\ r.path.stem \in DOMAIN files
    /\ files[r.path.stem] = SavedDict(r)

\* C16: when the poll of a check or the fetch of a download fails, the
\* command ends with that failure and the metadata and payload files are as
\* they were when the command loaded the request, so that the same command
\* resolves the same request and calls the service again; a download writes
\* the completion only in the step after a fetch that succeeded.
C16_FailedCallLeavesRecord ==
    [][\A p \in Procs :
          /\ (inv[p].pc \in {"poll", "fetch"} /\ inv'[p] # inv[p])
             => /\ AsLoaded(yamls, inv[p].req)
                /\ yamls' = yamls /\ jsonls' = jsonls
                /\ inv'[p].pc = "done"
                   => /\ inv'[p].out =
                            IF inv'[p].calls = {} THEN "killed"
                            ELSE IF inv[p].pc = "poll" THEN "PollError"
                            ELSE "FetchError"
                      /\ load_batch_request(yamls', inv'[p].q).id = inv[p].req.id
                      /\ LastPersisted(yamls', inv[p].req).batch_id # ""
                      /\ LastPersisted(yamls', inv[p].req).batch_id
                            = LastOf(inv[p].req).batch_id
          /\ (inv[p].cmd = "download" /\ inv[p].pc \notin {"idle", "done"}
              /\ yamls' # yamls)
             => /\ inv[p].pc = "complete"
                /\ inv[p].sent = <<[op |-> "fetch", arg |-> LastOf(inv[p].req).batch_id]>>
                /\ AsLoaded(yamls, inv[p].req)]_vars

\* a download ended with the failure of its fetch, and the execution it was
\* for is on disk as submitted and not completed
C16_Witness ==
    \E p \in Procs :
        /\ inv[p].pc = "done" /\ inv[p].cmd = "download"
        /\ inv[p].out = "FetchError"
        /\ inv[p].q \in DOMAIN yamls
        /\ Len(yamls[inv[p].q].execution) > 0
        /\ LET e == yamls[inv[p].q].execution[Len(yamls[inv[p].q].execution)]
           IN  /\ e.status = "submitted" /\ e.when_completed = ""
               /\ inv[p].sent = <<[op |-> "fetch", arg |-> e.batch_id]>>

\* C17: a download of a request with no execution, or whose last execution
\* has no batch id, ends in its first step without a call of the service and
\* without a write; with a batch id it fetches, and the step after the fetch
\* writes the completion of the last execution, before the results file is
\* written and a line is parsed.
C17_DownloadGuards ==
    [][\A p \in Procs :
          /\ (inv[p].pc = "idle" /\ inv'[p].pc # "idle" /\ inv'[p].cmd = "download"
              /\ load_batch_request(yamls, inv'[p].q).found)
             => LET raw == yamls[StemOfId(yamls, load_batch_request(yamls, inv'[p].q).id)]
                    n == Len(raw.execution)
                IN  /\ yamls' = yamls /\ jsonls' = jsonls
                    /\ inv'[p].calls = {} /\ inv'[p].sent = <<>>
                    /\ IF n = 0
                       THEN inv'[p].pc = "done" /\ inv'[p].out = "NoExecution"
                       ELSE IF raw.execution[n].batch_id = ""
                       THEN inv'[p].pc = "done" /\ inv'[p].out = "NoBatchId"
                       ELSE inv'[p].pc = "fetch" /\ inv'[p].req.id = raw.id
          /\ (inv[p].pc = "fetch" /\ inv'[p].pc \notin {"fetch", "done"})
             => /\ inv'[p].pc = "complete"
                /\ inv'[p].sent = <<[op |-> "fetch", arg |-> LastOf(inv[p].req).batch_id]>>
                /\ LastOf(inv[p].req).batch_id # ""
                /\ yamls' = yamls
          /\ (inv[p].pc = "complete" /\ inv'[p].pc \notin {"complete", "done"})
             => LET before == yamls[inv[p].req.path.stem].execution
                    after == yamls'[inv[p].req.path.stem].execution
                IN  /\ inv'[p].pc = "write_results"
                    /\ inv'[p].wrote = {}
                    /\ Len(after) = Len(before)
                    /\ \A i \in 1..(Len(before) - 1) : after[i] = before[i]
                    /\ after[Len(after)].status = "completed"
                    /\ after[Len(after)].when_completed # ""
                    /\ [after[Len(after)] EXCEPT !.status = "", !.when_completed = ""]
                          = [before[Len(before)] EXCEPT !.status = "", !.when_completed = ""]
          /\ inv[p].pc \in {"write_results", "parse"} => yamls' = yamls]_vars

\* a download of a request whose last execution is uploaded and not
\* submitted has ended without a call, and the execution is as it was
C17_Witness ==
    \E p \in Procs :
        /\ inv[p].pc = "done" /\ inv[p].cmd = "download"
        /\ inv[p].out = "NoBatchId"
        /\ inv[p].calls = {}
        /\ inv[p].q \in DOMAIN yamls
        /\ Len(yamls[inv[p].q].execution) > 0
        /\ IsUploaded(yamls[inv[p].q].execution[Len(yamls[inv[p].q].execution)])

\* C18: a cancel ends in its one step with the not-implemented error,
\* whatever its batch_id and whatever the directory holds, without a load, a
\* write or a call of the service.
C18_CancelNotImplemented ==
    [][\A p \in Procs :
          (inv[p].pc = "idle" /\ inv'[p].pc # "idle" /\ inv'[p].cmd = "cancel")
          => /\ inv'[p].pc = "done"
             /\ inv'[p].out = "NotImplementedError"
             /\ inv'[p].calls = {} /\ inv'[p].sent = <<>>
             /\ inv'[p].req = NoRequest /\ inv'[p].log = "" /\ inv'[p].shown = {}
             /\ yamls' = yamls /\ jsonls' = jsonls]_vars

\* a cancel of a submitted request has ended, and one of a batch_id that
\* matches nothing would end the same way
C18_Witness ==
    \E p \in Procs :
        /\ inv[p].pc = "done" /\ inv[p].cmd = "cancel"
        /\ inv[p].out = "NotImplementedError"
        /\ inv[p].q \in DOMAIN yamls
        /\ Len(yamls[inv[p].q].execution) > 0
        /\ IsSubmitted(yamls[inv[p].q].execution[Len(yamls[inv[p].q].execution)])
        /\ \E q \in Queries : ~load_batch_request(yamls, q).found

(***************************************************************************)
(* C20: the short id and distinct small selections (SpecId).               *)
(***************************************************************************)

NameSetOf(c) == {c.icons[i].name : i \in 1..Len(c.icons)}

\* the selection has use_all_icons set, or names at most 3 distinct icons
SmallSelection(c) == c.all_icons \/ Cardinality(NameSetOf(c)) <= 3

SelectionsDiffer ==
    \/ callA.prompt_id # callB.prompt_id
    \/ callA.size # callB.size
    \/ callA.all_icons # callB.all_icons
    \/ NameSetOf(callA) # NameSetOf(callB)

\* C20: two make_new invocations whose (promptId, size, useAllIcons, icon-name
\* set) differ, each explicit icon set having at most 3 members, never produce
\* the same id, also when icon names contain underscores or prompt ids contain
\* hyphens.
C20_SmallSetsCollisionFree ==
    ( /\ idA # NoId
      /\ idB # NoId
      /\ SelectionsDiffer
      /\ SmallSelection(callA)
      /\ SmallSelection(callB) )
        => idA # idB

(***************************************************************************)
(* C21: what the hash suffix of a large selection depends on (SpecId).     *)
(***************************************************************************)

\* the id of call c without its "{prompt_id}-{size}-" head
SuffixOf(c, id) ==
    SubSeq(id, Len(c.prompt_id) + Len(str(c.size)) + 3, Len(id))

BothHashed ==
    /\ idA # NoId /\ idB # NoId
    /\ ~callA.all_icons /\ Len(callA.icons) > 3
    /\ ~callB.all_icons /\ Len(callB.icons) > 3

\* C21 as stated: for selections of more than 3 names, the hash suffix of the
\* id is determined by the sorted tuple of icon names alone: two requests with
\* the same names have the same suffix even when promptId or size differ.
C21_SuffixFromNamesAlone ==
    (BothHashed /\ SameNameCounts)
        => SuffixOf(callA, idA) = SuffixOf(callB, idB)

\* C21 amended: for selections of more than 3 names, the hash suffix of the
\* id is determined by promptId, size and the sorted tuple of icon names: two
\* computations with the same promptId, size and names, in whatever order and
\* by whatever author, directory and time, give the same suffix, which is
\* hash_tuple_simple of (promptId, size, sorted names).
C21_SuffixFromIdValues ==
    (BothHashed /\ SameNameCounts
        /\ callA.prompt_id = callB.prompt_id /\ callA.size = callB.size)
        => /\ SuffixOf(callA, idA) = SuffixOf(callB, idB)
           /\ SuffixOf(callA, idA)
                = hash_tuple_simple(callA.prompt_id, callA.size,
                                    sorted(IconNamesOf(callA.icons)))

\* C21 witness: four names given in two different orders with the same
\* promptId and size were hashed to one non-empty suffix.
C21_Witness ==
    /\ BothHashed /\ SameNameCounts
    /\ callA.prompt_id = callB.prompt_id /\ callA.size = callB.size
    /\ IconNamesOf(callA.icons) # IconNamesOf(callB.icons)
    /\ SuffixOf(callA, idA) # <<>>
    /\ SuffixOf(callA, idA) = SuffixOf(callB, idB)

(***************************************************************************)
(* C22: a batch_id that resolves to no record (Spec).                      *)
(***************************************************************************)

\* C22: every command that takes an identifier (execute, check, download) and
\* is given one that resolution cannot find ends with the NotFound outcome,
\* having called the service not at all, started no execution and written
\* nothing; the failure is not turned into a different error.
C22_NotFoundReported ==
    [][\A p \in Procs :
          (/\ inv[p].pc = "idle" /\ inv'[p].pc # "idle"
           /\ inv'[p].cmd \in Resolving
           /\ ~load_batch_request(yamls, inv'[p].q).found)
          => /\ inv'[p].pc = "done"
             /\ inv'[p].out = "NotFound"
             /\ inv'[p].log \in NotFoundMessages
             /\ inv'[p].calls = {}
             /\ inv'[p].wrote = {}
             /\ yamls' = yamls
             /\ jsonls' = jsonls]_vars

(***************************************************************************)
(* C23: two invocations on one id at the same time (SpecConc).             *)
(***************************************************************************)

\* process p is inside an execute that holds the request on disk under stem
ExecutingOn(p, stem) ==
    /\ inv[p].cmd = "execute"
    /\ inv[p].pc \in {"start", "upload", "save_upload", "submit", "save_submit"}
    /\ inv[p].req.path.stem = stem

\* the step of p is one of the saves of execute
SavesIn(p) ==
    \/ inv[p].pc = "start" /\ inv'[p].pc = "upload"
    \/ inv[p].pc = "save_upload" /\ inv'[p].pc = "submit"
    \/ inv[p].pc = "save_submit" /\ inv'[p].out = "submitted"

\* C23: access to one id is not serialised: every save of an execute
\* overwrites the whole record with what the process loaded plus its own
\* execution, whatever another invocation has written since, so two
\* concurrent executes append executions with the same execution_id and the
\* execution or the handles one of them saved are lost from disk.
C23_WholeRecordOverwrite ==
    [][\A p \in Procs, stem \in DOMAIN yamls :
          (ExecutingOn(p, stem) /\ SavesIn(p))
          => LET held == inv[p].req.execution
                 n    == IF inv[p].pc = "start" THEN Len(held) + 1 ELSE Len(held)
                 disk == yamls'[stem].execution
             IN  /\ Len(disk) = n
                 /\ disk[n].execution_id = str(n - 1)
                 /\ \A i \in 1..(n - 1) : disk[i] = held[i]
                 /\ inv[p].pc = "start"
                    => /\ disk[n].input_file_id = ""
                       /\ disk[n].batch_id = ""]_vars

\* C23 witness: process 1 reported its execution submitted, and a concurrent
\* execute that had loaded the record before then saved its own execution 0
\* over it: the record on disk holds one execution, "starting", without the
\* job handle process 1 saved.
C23_Witness ==
    \E stem \in DOMAIN yamls :
        /\ inv[1].cmd = "execute" /\ inv[1].pc = "done"
        /\ inv[1].out = "submitted"
        /\ "submit" \in inv[1].calls
        /\ ExecutingOn(2, stem) /\ inv[2].pc = "upload"
        /\ load_batch_request(yamls, inv[1].q).found
        /\ load_batch_request(yamls, inv[1].q).id = yamls[stem].id
        /\ Len(yamls[stem].execution) = 1
        /\ yamls[stem].execution[1].execution_id = str(0)
        /\ yamls[stem].execution[1].batch_id = ""

(***************************************************************************)
(* C24: the custom_id from make to download (SpecTag).                     *)
(***************************************************************************)

\* C24: for every request id, icon name and execution index, the custom_id
\* built by populate_base_prompts and extended by finalize_prompts is split by
\* the download command into exactly three parts, equal to the request id,
\* the icon name and the execution index.
C24_CustomIdRoundTrip ==
    ret.op = "parsed"
    => \A i \in 1..Len(request.self.icons) :
          LET last == request.self.execution[Len(request.self.execution)]
          IN  /\ Len(ret.parsed) = Len(request.self.icons)
              /\ ret.parsed[i].error = ""
              /\ ret.parsed[i].given_request_id = request.self.id
              /\ ret.parsed[i].icon_name = request.self.icons[i].name
              /\ ret.parsed[i].given_execution_id = last.execution_id

(***************************************************************************)
(* C25: the handles of an execution (Spec).                                *)
(***************************************************************************)

\* the handles of execution e agree with its status
HandlesAgree(e) ==
    /\ e.status = "starting" => (e.input_file_id = "" /\ e.batch_id = "")
    /\ e.status = "uploaded" => (e.input_file_id # "" /\ e.batch_id = "")
    /\ e.batch_id # "" => e.input_file_id # ""

\* a handle that was set has the same value afterwards
HandleKept(before, after) ==
    /\ before.input_file_id # "" => after.input_file_id = before.input_file_id
    /\ before.batch_id # "" => after.batch_id = before.batch_id

\* some process is inside an execute, a check or a download
ResolvingRuns ==
    \E p \in Procs : inv[p].cmd \in Resolving /\ inv[p].pc \notin {"idle", "done"}

\* C25: in every reachable state, every execution, on disk or held by a
\* command, has an empty input_file_id until an upload has succeeded and an
\* empty batch_id until a submit has succeeded: "starting" has no handle,
\* "uploaded" has the file id only, a batch id comes with a file id; and no
\* step of execute, check or download clears or replaces a handle that is set.
C25_HandlesSetOnceInOrder ==
    /\ [](/\ \A stem \in DOMAIN yamls :
                \A i \in 1..Len(yamls[stem].execution) :
                    HandlesAgree(yamls[stem].execution[i])
          /\ \A p \in Procs :
                \A i \in 1..Len(inv[p].req.execution) :
                    HandlesAgree(inv[p].req.execution[i]))
    /\ [][ResolvingRuns
          => \A stem \in DOMAIN yamls :
                /\ stem \in DOMAIN yamls'
                /\ \A i \in 1..Len(yamls[stem].execution) :
                      /\ i <= Len(yamls'[stem].execution)
                      /\ HandleKept(yamls[stem].execution[i],
                                    yamls'[stem].execution[i])]_vars

\* C25 witness: a record whose first execution was completed by a download
\* with both handles in place, and whose second execution stopped after the
\* upload, with its file id and no batch id.
C25_Witness ==
    \E stem \in DOMAIN yamls :
        /\ Len(yamls[stem].execution) = 2
        /\ yamls[stem].execution[1].status = "completed"
        /\ yamls[stem].execution[1].input_file_id # ""
        /\ yamls[stem].execution[1].batch_id # ""
        /\ yamls[stem].execution[2].status = "uploaded"
        /\ yamls[stem].execution[2].input_file_id # ""
        /\ yamls[stem].execution[2].batch_id = ""

(***************************************************************************)
(* C26: when_completed and the status "completed" (Spec).                  *)
(***************************************************************************)

AtStep(cmd, pc) == \E p \in Procs : inv[p].cmd = cmd /\ inv[p].pc = pc

IdentityOf(raw) == [raw EXCEPT !.execution = <<>>]

\* the id make_new computes from the persisted prompt_id, size and selection
FingerprintOf(raw, stem) ==
    make_new_id(LoadedRequest(raw, stem).icons, raw.use_all_icons,
                raw.prompt_id, raw.size)

\* the persisted id is the name of the file and the fingerprint of the record
IdIsFingerprint ==
    \A stem \in DOMAIN yamls :
        /\ yamls[stem].id = stem
        /\ yamls[stem].id = FingerprintOf(yamls[stem], stem)

C28_TwinFiles ==
    \A stem \in DOMAIN yamls :
        /\ stem \in DOMAIN jsonls
        /\ Len(jsonls[stem]) = Len(LoadedRequest(yamls[stem], stem).icons)
        /\ \A i \in 1..Len(jsonls[stem]) :
              jsonls[stem][i].custom_id
                = yamls[stem].id \o <<"|">>
                    \o LoadedRequest(yamls[stem], stem).icons[i].name

(***************************************************************************)
(* C29: when the check command polls and what it writes (Spec).            *)
(***************************************************************************)

\* C29: check polls the service and persists the polled status only when the
\* last execution of the request has a non-empty batch_id, and then only onto
\* that last execution; when the request has no execution, or its last
\* execution has not been submitted, check calls nothing and leaves the
\* persisted record as it is.
C29_CheckPollsSubmittedOnly ==
    [][\A p \in Procs :
          /\ (/\ inv[p].pc = "idle" /\ inv'[p].pc # "idle"
              /\ inv'[p].cmd = "check"
              /\ load_batch_request(yamls, inv'[p].q).found)
             => LET r == Loaded(inv'[p].q)
                IN  /\ UNCHANGED diskVars
                    /\ inv'[p].calls = {}
                    /\ inv'[p].sent = <<>>
                    /\ IF Len(r.execution) = 0
                       THEN inv'[p].pc = "done" /\ inv'[p].out = "NoExecutions"
                       ELSE IF LastOf(r).batch_id = ""
                       THEN inv'[p].pc = "done" /\ inv'[p].out = "NotSubmitted"
                       ELSE inv'[p].pc = "poll" /\ inv'[p].req = r
          /\ (inv[p].cmd = "check" /\ inv[p].pc \in {"poll", "update_status"})
             => LET stem == inv[p].req.path.stem
                    n    == Len(inv[p].req.execution)
                IN  /\ LastOf(inv[p].req).batch_id # ""
                    /\ jsonls' = jsonls
                    /\ inv'[p].sent # inv[p].sent
                       => inv'[p].sent
                            = << [op |-> "poll",
                                  arg |-> LastOf(inv[p].req).batch_id] >>
                    /\ yamls' # yamls
                       => /\ inv[p].pc = "update_status"
                          /\ "poll" \in inv[p].calls
                          /\ yamls' = [yamls EXCEPT
                                         ![stem].execution[n].status = inv[p].tmp]]_vars

\* C29 witness: a check ended without calling the service on a request whose
\* first execution has a batch_id and whose last execution has none.
C29_Witness ==
    \E p \in Procs :
        /\ inv[p].cmd = "check" /\ inv[p].pc = "done"
        /\ inv[p].out = "NotSubmitted"
        /\ inv[p].calls = {}
        /\ load_batch_request(yamls, inv[p].q).found
        /\ LET r == Loaded(inv[p].q)
           IN  /\ Len(r.execution) = 2
               /\ r.execution[1].batch_id # ""
               /\ r.execution[2].status = "uploaded"
               /\ r.execution[2].batch_id = ""

=============================================================================
